---- MODULE Spec2Model ----
(***************************************************************************)
(* Knowledge store of sovereign_shell: the SQLite graph store (graphdb.py), *)
(* the graph builder (graph_builder.py) and the hybrid retriever            *)
(* (graph_rag.py).  Text is modelled by TLA+ strings, so node ids, blocks   *)
(* and the formatted context are the strings the code builds.  Edge weights *)
(* are in tenths (0.8 is 8, 1.0 is 10).                                     *)
(***************************************************************************)
EXTENDS Integers, Sequences, FiniteSets, TLC

VARIABLES
    graph_nodes,   \* rows of table graph_nodes as the store handle sees them
    graph_edges,   \* rows of table graph_edges in rowid order
    committed,     \* the durable tables: [nodes, edges] at the last commit
    batch_mode,    \* GraphDB._batch_mode
    calls,         \* number of writer calls issued so far
    scan_order,    \* order in which SQLite returns the rows of an unordered SELECT
    ex_pc,         \* expand_neighbors: "idle", "for" (loop head), "inner", "done"
    node_ids,      \* expand_neighbors: argument node_ids
    max_hops,      \* expand_neighbors: argument max_hops
    max_neighbors_per_hop,
    visited,
    all_nodes,
    all_edges,
    current_frontier,
    next_frontier,
    hop,           \* the loop variable of "for hop in range(max_hops)"
    todo,          \* nodes of current_frontier the inner loop has not reached yet
    node_hop,      \* history: for each entry of all_nodes, 0 for a seed, else 1 + hop
    frontier_sizes, \* history: size of the frontier expanded in each hop so far
    records,       \* rows of table records of the record store
    record_embeddings, \* rows of table record_embeddings
    rt_pc,         \* retrieve: "idle", "embedded", "expanding", "returned", "raised"
    query_vec,     \* retrieve: Optional result of embed_text
    top_k,
    graph_hops,
    graph_neighbors,
    vector_results,
    context,       \* retrieve: Optional RAGContext returned
    store_calls,   \* history: calls retrieve made on the record store and the graph store
    max_chars,     \* format_for_prompt: argument
    parts,         \* format_for_prompt: local parts
    output,        \* format_for_prompt: Optional string returned
    b_pc,          \* build_graph_from_records: "idle", "running", "done", "raised", "crashed"
    b_records,     \* build_graph_from_records: argument records
    b_k,           \* build_graph_from_records: number of its steps taken so far
    b_crashes,     \* history: number of times the process died during a build
    b_lost,        \* history: number of rows that were not committed when the process died
    db_committed,  \* the tables of the record store as another connection reads them
    db_calls,      \* number of calls made to the record store
    db_last,       \* the last call to the record store: operation, arguments, result
    db_inserted,   \* history: per id the record last inserted, until its validation is updated
    g_last,        \* the last call to the graph store: operation, arguments, result
    w_pc,          \* add_edge per connection to the graph file: "idle", "selected", "inserted"
    w_edge,        \* per connection: Optional edge of the add_edge call under way
    w_existing,    \* per connection: whether the SELECT of add_edge found a row
    p_pc,          \* embed pass of the cli: "idle", "running", "done", "raised"
    p_records,     \* embed pass: records = db.get_all()
    p_failing,     \* embed pass: positions of the records for which embed_text or store_embedding raises
    p_i,           \* embed pass: number of records the loop has gone through
    added,         \* history: the records handed to add_record_to_graph, in call order
    k_pc,          \* chunk_text: "idle", "while" (loop head), "returned"
    k_text,        \* chunk_text: argument text, a sequence of characters
    k_max_chars,   \* chunk_text: argument max_chars
    k_overlap,     \* chunk_text: argument overlap
    k_start,       \* chunk_text: local start
    k_chunks       \* chunk_text: local chunks

gvars == <<graph_nodes, graph_edges, committed, batch_mode, calls>>

evars == <<ex_pc, node_ids, max_hops, max_neighbors_per_hop, visited, all_nodes,
           all_edges, current_frontier, next_frontier, hop, todo, node_hop,
           frontier_sizes>>

dbvars == <<records, record_embeddings>>

rvars == <<rt_pc, query_vec, top_k, graph_hops, graph_neighbors, vector_results,
           context, store_calls>>

fvars == <<max_chars, parts, output>>

bvars == <<b_pc, b_records, b_k, b_crashes, b_lost>>

svars == <<db_committed, db_calls, db_last, db_inserted>>

wvars == <<w_pc, w_edge, w_existing>>

pvars == <<p_pc, p_records, p_failing, p_i>>

kvars == <<k_pc, k_text, k_max_chars, k_overlap, k_start, k_chunks>>

cvars == <<g_last, wvars, pvars, added, kvars>>

vars == <<gvars, scan_order, evars, dbvars, rvars, fvars, bvars, svars, cvars>>

(***************************************************************************)
(* Bounds of the model.                                                     *)
(***************************************************************************)
MaxCalls == 3

MaxHops == 2

MaxNeighbors == 2

(***************************************************************************)
(* Sequence helpers.                                                        *)
(***************************************************************************)
Range(s) == {s[i] : i \in 1..Len(s)}

Min(a, b) == IF a < b THEN a ELSE b

Max(a, b) == IF a > b THEN a ELSE b

\* s[:n] of Python
SlicePrefix(s, n) ==
    IF n >= 0 THEN SubSeq(s, 1, Min(n, Len(s)))
    ELSE SubSeq(s, 1, Max(0, Len(s) + n))

\* list.sort(key=...): a stable sort, here of records [k, v] by ascending k.
\* Element i goes behind the elements with a smaller key and the earlier
\* elements with the same key.
SortedPosition(s, i) ==
    1 + Cardinality({j \in 1..Len(s) :
                        \/ s[j].k < s[i].k
                        \/ s[j].k = s[i].k /\ j < i})

StableSort(s) ==
    [p \in 1..Len(s) |-> s[CHOOSE i \in 1..Len(s) : SortedPosition(s, i) = p]]

Values(s) == [i \in 1..Len(s) |-> s[i].v]

(***************************************************************************)
(* models/schemas.py: the enumerations, in declaration order.               *)
(***************************************************************************)
Category ==
    <<"language", "aspnet", "blazor", "ef_core", "maui", "minimal_apis",
      "signalr", "grpc", "mlnet", "azure_sdk", "msbuild", "roslyn", "nuget",
      "bcl">>

CSharpVersion ==
    <<"1.0", "1.2", "2.0", "3.0", "4.0", "5.0", "6.0", "7.0", "7.1", "7.2",
      "7.3", "8.0", "9.0", "10.0", "11.0", "12.0", "13.0", "14.0">>

DotNetVersion ==
    <<".NET Framework 1.0", ".NET Framework 1.1", ".NET Framework 2.0",
      ".NET Framework 3.0", ".NET Framework 3.5", ".NET Framework 4.0",
      ".NET Framework 4.5", ".NET Framework 4.6", ".NET Framework 4.7",
      ".NET Framework 4.8", ".NET Core 1.0", ".NET Core 2.0",
      ".NET Core 2.1", ".NET Core 3.0", ".NET Core 3.1", ".NET 5.0",
      ".NET 6.0", ".NET 7.0", ".NET 8.0", ".NET 9.0", ".NET 10.0">>

ValidationStatus == <<"untested", "compiles", "fails">>

(***************************************************************************)
(* graph_builder.py: canonical node ids.                                    *)
(***************************************************************************)
LowerChar(c) ==
    CASE c = "E" -> "e" [] c = "F" -> "f" [] c = "C" -> "c"
      [] c = "L" -> "l" [] c = "P" -> "p" [] OTHER -> c

RECURSIVE Lower(_)
Lower(s) ==
    IF Len(s) = 0 THEN ""
    ELSE LowerChar(SubSeq(s, 1, 1)) \o Lower(SubSeq(s, 2, Len(s)))

version_node_id(version) == "csharp:" \o version

runtime_node_id(version) == "dotnet:" \o version

category_node_id(category) == "framework:" \o category

feature_node_id(record) == "feature:" \o record.id

package_node_id(package) == "nuget:" \o Lower(package)

EmptyProps == <<>>

GraphNode(id, node_type, name, properties) ==
    [id |-> id, node_type |-> node_type, name |-> name, properties |-> properties]

GraphEdge(source_id, target_id, relation, weight) ==
    [source_id |-> source_id, target_id |-> target_id, relation |-> relation,
     weight |-> weight, properties |-> EmptyProps]

DefaultWeight == 10

create_version_nodes ==
    [i \in 1..Len(CSharpVersion) |->
        GraphNode(version_node_id(CSharpVersion[i]), "csharp_version",
                  "C# " \o CSharpVersion[i], EmptyProps)]

create_runtime_nodes ==
    [i \in 1..Len(DotNetVersion) |->
        GraphNode(runtime_node_id(DotNetVersion[i]), "dotnet_version",
                  DotNetVersion[i], EmptyProps)]

FrameworkNames(cat) ==
    CASE cat = "language" -> "C# Language"
      [] cat = "aspnet" -> "ASP.NET Core"
      [] cat = "blazor" -> "Blazor"
      [] cat = "ef_core" -> "Entity Framework Core"
      [] cat = "maui" -> ".NET MAUI"
      [] cat = "minimal_apis" -> "Minimal APIs"
      [] cat = "signalr" -> "SignalR"
      [] cat = "grpc" -> "gRPC"
      [] cat = "mlnet" -> "ML.NET"
      [] cat = "azure_sdk" -> "Azure SDK"
      [] cat = "msbuild" -> "MSBuild"
      [] cat = "roslyn" -> "Roslyn"
      [] cat = "nuget" -> "NuGet"
      [] cat = "bcl" -> "Base Class Library"
      [] OTHER -> cat

create_framework_nodes ==
    [i \in 1..Len(Category) |->
        GraphNode(category_node_id(Category[i]), "framework",
                  FrameworkNames(Category[i]), EmptyProps)]

FRAMEWORK_DEPS ==
    <<<<"blazor", "aspnet">>, <<"minimal_apis", "aspnet">>,
      <<"signalr", "aspnet">>, <<"grpc", "aspnet">>, <<"ef_core", "bcl">>>>

VERSION_EVOLUTION ==
    [i \in 1..(Len(CSharpVersion) - 1) |-> <<CSharpVersion[i], CSharpVersion[i + 1]>>]

(***************************************************************************)
(* graphdb.py: the store.  A store value g is                               *)
(* [nodes, edges, committed, batch_mode].                                   *)
(***************************************************************************)
Commit(g) == [g EXCEPT !.committed = [nodes |-> g.nodes, edges |-> g.edges]]

\* add_node without its test of _batch_mode: every call commits
add_node_committing(g, node) ==
    Commit([g EXCEPT !.nodes = {n \in g.nodes : n.id # node.id} \cup {node}])

\* INSERT OR REPLACE INTO graph_nodes, then commit unless in batch mode
add_node(g, node) ==
    LET g1 == [g EXCEPT !.nodes = {n \in g.nodes : n.id # node.id} \cup {node}]
    IN  IF ~g.batch_mode THEN Commit(g1) ELSE g1

\* INSERT OR IGNORE INTO graph_nodes for each row of the batch: a row is
\* inserted unless its id is already in the table or an earlier row has it
InsertOrIgnoreAll(nodes, batch) ==
    nodes \cup
    { batch[i] : i \in { k \in 1..Len(batch) :
                    /\ \A n \in nodes : n.id # batch[k].id
                    /\ \A j \in 1..(k - 1) : batch[j].id # batch[k].id } }

\* the batch written with the INSERT OR REPLACE of add_node: the last row of
\* an id stays
add_nodes_batch_replacing(g, batch) ==
    Commit([g EXCEPT !.nodes =
        {n \in @ : \A i \in 1..Len(batch) : batch[i].id # n.id}
        \cup {batch[i] : i \in {k \in 1..Len(batch) :
                                  \A j \in (k + 1)..Len(batch) : batch[j].id # batch[k].id}}])

add_nodes_batch(g, batch) ==
    Commit([g EXCEPT !.nodes = InsertOrIgnoreAll(g.nodes, batch)])

\* the count add_nodes_batch returns: "count += 1" follows every execute
\* that does not raise, and INSERT OR IGNORE of a stored id does not raise
add_nodes_batch_count(g, batch) == Len(batch)

\* SELECT id FROM graph_edges WHERE source_id = ? AND target_id = ? AND relation = ?
EdgeExists(edges, edge) ==
    \E i \in 1..Len(edges) :
        /\ edges[i].source_id = edge.source_id
        /\ edges[i].target_id = edge.target_id
        /\ edges[i].relation = edge.relation

EdgeRow(edges, edge) ==
    [id |-> Len(edges) + 1, source_id |-> edge.source_id,
     target_id |-> edge.target_id, relation |-> edge.relation,
     weight |-> edge.weight, properties |-> edge.properties]

\* add_edge without its SELECT: every call inserts
add_edge_unchecked(g, edge) ==
    LET g1 == [g EXCEPT !.edges = Append(@, EdgeRow(@, edge))]
    IN  IF ~g.batch_mode THEN Commit(g1) ELSE g1

add_edge(g, edge) ==
    IF EdgeExists(g.edges, edge) THEN g
    ELSE LET g1 == [g EXCEPT !.edges = Append(@, EdgeRow(@, edge))]
         IN  IF ~g.batch_mode THEN Commit(g1) ELSE g1

\* a loop of add_edge calls (the test on batch_mode, which add_edge never
\* changes, only makes TLC evaluate g1 before the next call)
RECURSIVE add_edges(_, _)
add_edges(g, es) ==
    IF es = <<>> THEN g
    ELSE LET g1 == add_edge(g, Head(es))
         IN  IF g1.batch_mode = g.batch_mode THEN add_edges(g1, Tail(es)) ELSE g

(***************************************************************************)
(* graph_builder.py: seed_graph and add_record_to_graph.                    *)
(***************************************************************************)
SeedEdges ==
    [i \in 1..Len(VERSION_EVOLUTION) |->
        GraphEdge(version_node_id(VERSION_EVOLUTION[i][1]),
                  version_node_id(VERSION_EVOLUTION[i][2]), "EVOLVED_INTO", 8)]
    \o
    [i \in 1..Len(FRAMEWORK_DEPS) |->
        GraphEdge(category_node_id(FRAMEWORK_DEPS[i][1]),
                  category_node_id(FRAMEWORK_DEPS[i][2]), "DEPENDS_ON", 9)]

\* seed_graph writing its edges with plain INSERTs
seed_graph_plain_insert(g) ==
    LET g1 == add_nodes_batch(g, create_version_nodes \o create_runtime_nodes
                                 \o create_framework_nodes)
        g2 == [g1 EXCEPT !.edges =
                  @ \o [i \in 1..Len(SeedEdges) |->
                           [EdgeRow(@, SeedEdges[i]) EXCEPT !.id = Len(g1.edges) + i]]]
    IN  IF ~g.batch_mode THEN Commit(g2) ELSE g2

seed_graph(g) ==
    add_edges(
        add_nodes_batch(g, create_version_nodes \o create_runtime_nodes
                           \o create_framework_nodes),
        SeedEdges)

\* the package loop without its add_edge
RECURSIVE add_packages_nodes_only(_, _, _)
add_packages_nodes_only(g, feature_id, pkgs) ==
    IF pkgs = <<>> THEN g
    ELSE add_packages_nodes_only(
             add_node(g, GraphNode(package_node_id(Head(pkgs)), "nuget_package",
                                   Head(pkgs), EmptyProps)),
             feature_id, Tail(pkgs))

RECURSIVE add_packages(_, _, _)
add_packages(g, feature_id, pkgs) ==
    IF pkgs = <<>> THEN g
    ELSE LET pkg_id == package_node_id(Head(pkgs))
             g1 == add_node(g, GraphNode(pkg_id, "nuget_package", Head(pkgs), EmptyProps))
             g2 == add_edge(g1, GraphEdge(feature_id, pkg_id, "USES_PACKAGE", DefaultWeight))
         IN  add_packages(g2, feature_id, Tail(pkgs))

\* add_record_to_graph with a feature id that counts the feature nodes
\* stored so far
add_record_to_graph_numbered(record, g) ==
    LET feature_id ==
            "feature:" \o ToString(Cardinality({n \in g.nodes : n.node_type = "feature"}))
        g1 == add_node(g, GraphNode(feature_id, "feature", record.feature_name,
                  [category |-> record.category,
                   csharp_version |-> record.csharp_version,
                   dotnet_version |-> record.dotnet_version,
                   validation_status |-> record.validation_status]))
        g2 == add_edge(g1, GraphEdge(feature_id, version_node_id(record.csharp_version),
                                     "INTRODUCED_IN", DefaultWeight))
        g3 == add_edge(g2, GraphEdge(feature_id, runtime_node_id(record.dotnet_version),
                                     "REQUIRES_RUNTIME", DefaultWeight))
        g4 == add_edge(g3, GraphEdge(feature_id, category_node_id(record.category),
                                     "PART_OF", DefaultWeight))
    IN  add_packages(g4, feature_id, record.nuget_packages)

add_record_to_graph(record, g) ==
    LET feature_id == feature_node_id(record)
        g1 == add_node(g, GraphNode(feature_id, "feature", record.feature_name,
                  [category |-> record.category,
                   csharp_version |-> record.csharp_version,
                   dotnet_version |-> record.dotnet_version,
                   validation_status |-> record.validation_status]))
        g2 == add_edge(g1, GraphEdge(feature_id, version_node_id(record.csharp_version),
                                     "INTRODUCED_IN", DefaultWeight))
        g3 == add_edge(g2, GraphEdge(feature_id, runtime_node_id(record.dotnet_version),
                                     "REQUIRES_RUNTIME", DefaultWeight))
        g4 == add_edge(g3, GraphEdge(feature_id, category_node_id(record.category),
                                     "PART_OF", DefaultWeight))
    IN  add_packages(g4, feature_id, record.nuget_packages)

\* the count add_record_to_graph returns: "edges_created += 1" follows each
\* of the three add_edge calls and each add_edge call of the package loop
edges_created(record) == 3 + Len(record.nuget_packages)

(***************************************************************************)
(* Inputs of the writer.                                                    *)
(***************************************************************************)
DotNetRecord(id, category, csharp_version, dotnet_version, feature_name, description, code_snippet, legacy_equivalent, nuget_packages) ==
    [id |-> id, category |-> category, csharp_version |-> csharp_version,
     dotnet_version |-> dotnet_version, feature_name |-> feature_name,
     description |-> description, code_snippet |-> code_snippet,
     legacy_equivalent |-> legacy_equivalent, nuget_packages |-> nuget_packages,
     source_url |-> "https://learn.microsoft.com/" \o id,
     validation_status |-> "untested", validation_target |-> "",
     validation_error |-> <<>>, tags |-> <<>>]

Records ==
    { DotNetRecord("r1", "language", "9.0", ".NET 5.0", "Records",
                   "Immutable reference types", "record P(int X);",
                   "class P", <<>>),
      DotNetRecord("r1", "language", "10.0", ".NET 6.0", "Record structs",
                   "Value records", "record struct P(int X);",
                   "struct P", <<"EFCore">>),
      DotNetRecord("r2", "ef_core", "9.0", ".NET 5.0", "DbContext",
                   "Unit of work", "// No code extracted",
                   "N/A", <<"EFCore", "efcore">>) }

NodeInputs ==
    { GraphNode("feature:r2", "concept", "r2 as concept", EmptyProps),
      GraphNode("note:r1", "feature", "unprefixed feature", EmptyProps),
      GraphNode("csharp:9.0", "csharp_version", "C# nine", EmptyProps) }

EdgeInputs ==
    { GraphEdge("feature:r1", "feature:r2", "RELATED_TO", 10),
      GraphEdge("feature:r2", "feature:r1", "RELATED_TO", 5),
      GraphEdge("feature:r1", "feature:r1", "RELATED_TO", 10),
      GraphEdge("csharp:9.0", "csharp:10.0", "EVOLVED_INTO", 10),
      GraphEdge("feature:r1", "ghost:1", "REPLACES", 10) }


(***************************************************************************)
(* graphdb.py: reads.  An Optional value is a sequence of length 0 or 1.   *)
(* "CHOOSE x \in {F(v) : v \in {e}} : TRUE" is F(e) with e evaluated once.  *)
(***************************************************************************)
get_node(nodes, node_id) ==
    IF \E n \in nodes : n.id = node_id
    THEN <<CHOOSE n \in nodes : n.id = node_id>>
    ELSE <<>>

\* BINARY collation order of the relation names, the second column of the
\* indexes idx_edges_source and idx_edges_target
RelationRank(relation) ==
    CASE relation = "DEPENDS_ON" -> 1
      [] relation = "EVOLVED_INTO" -> 2
      [] relation = "INTRODUCED_IN" -> 3
      [] relation = "NAMESPACE_OF" -> 4
      [] relation = "PART_OF" -> 5
      [] relation = "RELATED_TO" -> 6
      [] relation = "REPLACES" -> 7
      [] relation = "REQUIRES_RUNTIME" -> 8
      [] relation = "USES_PACKAGE" -> 9
      [] OTHER -> 10

\* the rows of a SELECT without ORDER BY: in rowid order (table scan) or in
\* the order of the index on (endpoint, relation), whichever the planner uses
ScanOrders == {"rowid", "index"}

Scanned(rows, order) ==
    IF order = "rowid" THEN rows
    ELSE CHOOSE sorted \in
             { Values(StableSort(keyed)) :
                 keyed \in {[i \in 1..Len(rows) |->
                               [k |-> RelationRank(rows[i].relation), v |-> rows[i]]]} } :
             TRUE

get_outgoing(edges, node_id, order) ==
    LET Match(e) == e.source_id = node_id
    IN  CHOOSE rows \in {Scanned(matching, order) : matching \in {SelectSeq(edges, Match)}} :
            TRUE

\* a node that sees no edge pointing at it
get_incoming_none(edges, node_id, order) == <<>>

get_incoming(edges, node_id, order) ==
    LET Match(e) == e.target_id = node_id
    IN  CHOOSE rows \in {Scanned(matching, order) : matching \in {SelectSeq(edges, Match)}} :
            TRUE

\* the (node, edge) pairs of the rows whose other endpoint is a stored node
OtherEnd(e, end) == IF end = "target_id" THEN e.target_id ELSE e.source_id

Pairs(nodes, rows, end) ==
    LET Found(e) == get_node(nodes, OtherEnd(e, end)) # <<>>
    IN  CHOOSE pairs \in
            { [i \in 1..Len(kept) |->
                  [node |-> get_node(nodes, OtherEnd(kept[i], end))[1], edge |-> kept[i]]] :
              kept \in {SelectSeq(rows, Found)} } :
            TRUE

\* the merged list left in the order of its making
SortByWeightNone(results) == results

\* results.sort(key=lambda x: x[1].weight, reverse=True): stable, descending
SortByWeightDesc(results) ==
    CHOOSE sorted \in
        { Values(StableSort(keyed)) :
            keyed \in {[i \in 1..Len(results) |->
                          [k |-> 0 - results[i].edge.weight, v |-> results[i]]]} } :
        TRUE

\* get_neighbors without the final slice
get_neighbors_unlimited(nodes, edges, node_id, max_neighbors, order) ==
    CHOOSE all \in
        { SortByWeightDesc(results) :
          results \in {Pairs(nodes, get_outgoing(edges, node_id, order), "target_id")
                       \o Pairs(nodes, get_incoming(edges, node_id, order), "source_id")} } :
        TRUE

get_neighbors(nodes, edges, node_id, max_neighbors, order) ==
    CHOOSE limited \in
        { SlicePrefix(SortByWeightDesc(results), max_neighbors) :
          results \in {Pairs(nodes, get_outgoing(edges, node_id, order), "target_id")
                       \o Pairs(nodes, get_incoming(edges, node_id, order), "source_id")} } :
        TRUE

(***************************************************************************)
(* graphdb.py: expand_neighbors, one step per frontier node.                *)
(***************************************************************************)
\* starting nodes that are listed whether or not they are stored
SeedNodesUnchecked(nodes, ids) ==
    [i \in 1..Len(ids) |->
        IF get_node(nodes, ids[i]) # <<>> THEN get_node(nodes, ids[i])[1]
        ELSE GraphNode(ids[i], "concept", ids[i], EmptyProps)]

\* lines 280-286: the starting nodes
SeedNodes(nodes, ids) ==
    LET Found(nid) == get_node(nodes, nid) # <<>>
        kept == SelectSeq(ids, Found)
    IN  [i \in 1..Len(kept) |-> get_node(nodes, kept[i])[1]]

\* a test that takes every neighbour for a new node
NewlySeenAlways(seen, neighbor_node) == TRUE

\* "if neighbor_node.id not in visited"
NewlySeen(seen, neighbor_node) == neighbor_node.id \notin seen

\* lines 294-300: the loop over the neighbors of one frontier node; st is
\* [visited, all_nodes, all_edges, next_frontier, node_hop]
RECURSIVE VisitNeighbors(_, _, _)
VisitNeighbors(st, neighbors, h) ==
    IF neighbors = <<>> THEN st
    ELSE LET nb == Head(neighbors)
             st1 == [st EXCEPT !.all_edges = Append(@, nb.edge)]
             st2 == IF NewlySeen(st.visited, nb.node)
                    THEN [st1 EXCEPT !.visited = @ \cup {nb.node.id},
                                     !.all_nodes = Append(@, nb.node),
                                     !.next_frontier = @ \cup {nb.node.id},
                                     !.node_hop = Append(@, h + 1)]
                    ELSE st1
         IN  VisitNeighbors(st2, Tail(neighbors), h)

\* a hop loop that only stops on an empty frontier
InRangeUnbounded(h, hops) == TRUE

\* "for hop in range(max_hops)": is there another iteration
InRange(h, hops) == h < hops

ExpandIdle ==
    /\ ex_pc = "idle"
    /\ node_ids = <<>>
    /\ max_hops = 0
    /\ max_neighbors_per_hop = 0
    /\ visited = {}
    /\ all_nodes = <<>>
    /\ all_edges = <<>>
    /\ current_frontier = {}
    /\ next_frontier = {}
    /\ hop = 0
    /\ todo = {}
    /\ node_hop = <<>>
    /\ frontier_sizes = <<>>

\* no retrieve call and no format_for_prompt call has been made
RetrieveIdle ==
    /\ rt_pc = "idle"
    /\ query_vec = <<>>
    /\ top_k = 0
    /\ graph_hops = 0
    /\ graph_neighbors = 0
    /\ vector_results = <<>>
    /\ context = <<>>
    /\ store_calls = <<>>
    /\ max_chars = 0
    /\ parts = <<>>
    /\ output = <<>>

\* no build_graph_from_records call has been made
BuildIdle ==
    /\ b_pc = "idle"
    /\ b_records = <<>>
    /\ b_k = 0
    /\ b_crashes = 0
    /\ b_lost = 0

\* the ids the callers of the record store use; no record has id r9
StoreIds == {"r1", "r2", "r3", "r4", "r9"}

NoCall == [op |-> "none", args |-> <<>>, result |-> <<>>]

\* no call has been made to the record store, whose rows are all committed
StoreIdle ==
    /\ db_committed = [records |-> records, record_embeddings |-> record_embeddings]
    /\ db_calls = 0
    /\ db_last = NoCall
    /\ db_inserted = [id \in StoreIds |-> <<>>]

\* the connections that two processes hold on the graph file
Handles == {1, 2}

\* no call on the graph store, no add_edge under way on a connection, no
\* embed pass and no chunk_text call
CallsIdle ==
    /\ g_last = NoCall
    /\ w_pc = [h \in Handles |-> "idle"]
    /\ w_edge = [h \in Handles |-> <<>>]
    /\ w_existing = [h \in Handles |-> FALSE]
    /\ p_pc = "idle"
    /\ p_records = <<>>
    /\ p_failing = {}
    /\ p_i = 0
    /\ added = <<>>
    /\ k_pc = "idle"
    /\ k_text = <<>>
    /\ k_max_chars = 0
    /\ k_overlap = 0
    /\ k_start = 0
    /\ k_chunks = <<>>

\* lines 276-286
ExpandBegin(ids, hops, nbs) ==
    /\ ex_pc = "idle"
    /\ ex_pc' = "for"
    /\ node_ids' = ids
    /\ max_hops' = hops
    /\ max_neighbors_per_hop' = nbs
    /\ all_nodes' = SeedNodes(graph_nodes, ids)
    /\ visited' = {ids[i] : i \in {j \in 1..Len(ids) : get_node(graph_nodes, ids[j]) # <<>>}}
    /\ all_edges' = <<>>
    /\ current_frontier' = Range(ids)
    /\ next_frontier' = {}
    /\ hop' = 0
    /\ todo' = {}
    /\ node_hop' = [i \in 1..Len(SeedNodes(graph_nodes, ids)) |-> 0]
    /\ frontier_sizes' = <<>>

\* line 288-289: the head of the hop loop
HopBegin ==
    /\ ex_pc = "for"
    /\ IF InRange(hop, max_hops)
       THEN /\ ex_pc' = "inner"
            /\ next_frontier' = {}
            /\ todo' = current_frontier
            /\ frontier_sizes' = Append(frontier_sizes, Cardinality(current_frontier))
       ELSE /\ ex_pc' = "done"
            /\ UNCHANGED <<next_frontier, todo, frontier_sizes>>
    /\ UNCHANGED <<node_ids, max_hops, max_neighbors_per_hop, visited, all_nodes,
                   all_edges, current_frontier, hop, node_hop>>

\* lines 291-300: one iteration of "for nid in current_frontier"; a set is
\* iterated in an order the program does not control
ExpandNode ==
    /\ ex_pc = "inner"
    /\ \E nid \in todo :
        \E neighbors \in {get_neighbors(graph_nodes, graph_edges, nid,
                                         max_neighbors_per_hop, scan_order)} :
        \E st \in {VisitNeighbors(
                       [visited |-> visited, all_nodes |-> all_nodes,
                        all_edges |-> all_edges, next_frontier |-> next_frontier,
                        node_hop |-> node_hop],
                       neighbors, hop)} :
            /\ todo' = todo \ {nid}
            /\ visited' = st.visited
            /\ all_nodes' = st.all_nodes
            /\ all_edges' = st.all_edges
            /\ next_frontier' = st.next_frontier
            /\ node_hop' = st.node_hop
    /\ UNCHANGED <<ex_pc, node_ids, max_hops, max_neighbors_per_hop,
                   current_frontier, hop, frontier_sizes>>

\* lines 302-304: the end of one hop
HopEnd ==
    /\ ex_pc = "inner"
    /\ todo = {}
    /\ current_frontier' = next_frontier
    /\ IF next_frontier = {}
       THEN ex_pc' = "done" /\ hop' = hop
       ELSE ex_pc' = "for" /\ hop' = hop + 1
    /\ UNCHANGED <<node_ids, max_hops, max_neighbors_per_hop, visited, all_nodes,
                   all_edges, next_frontier, todo, node_hop, frontier_sizes>>

\* line 306: return TraversalResult(nodes=all_nodes, edges=all_edges)
TraversalResult == [nodes |-> all_nodes, edges |-> all_edges]

ExpandStep == HopBegin \/ ExpandNode \/ HopEnd

(***************************************************************************)
(* The writer's calls.                                                      *)
(***************************************************************************)
G == [nodes |-> graph_nodes, edges |-> graph_edges, committed |-> committed,
      batch_mode |-> batch_mode]

SetGraph(g) ==
    /\ graph_nodes' = g.nodes
    /\ graph_edges' = g.edges
    /\ committed' = g.committed
    /\ batch_mode' = g.batch_mode

WriterCall(g) ==
    /\ calls < MaxCalls
    /\ calls' = calls + 1
    /\ SetGraph(g)
    /\ UNCHANGED <<scan_order, evars, dbvars, rvars, fvars, bvars, svars, cvars>>

AddNode == \E node \in NodeInputs : WriterCall(add_node(G, node))

AddEdge == \E edge \in EdgeInputs : WriterCall(add_edge(G, edge))

SeedGraph == WriterCall(seed_graph(G))

AddRecordToGraph == \E record \in Records : WriterCall(add_record_to_graph(record, G))

\* graph._batch_mode = True / False (graph_builder.py lines 264 and 274)
SetBatchMode ==
    /\ batch_mode' = ~batch_mode
    /\ UNCHANGED <<graph_nodes, graph_edges, committed, calls, scan_order, evars,
                   dbvars, rvars, fvars, bvars, svars, cvars>>

\* graph.conn.commit() (graph_builder.py lines 270 and 273)
ConnCommit ==
    /\ SetGraph(Commit(G))
    /\ UNCHANGED <<calls, scan_order, evars, dbvars, rvars, fvars, bvars, svars, cvars>>

EmptyGraph ==
    [nodes |-> {}, edges |-> <<>>, committed |-> [nodes |-> {}, edges |-> <<>>],
     batch_mode |-> FALSE]

Init ==
    /\ graph_nodes = EmptyGraph.nodes
    /\ graph_edges = EmptyGraph.edges
    /\ committed = EmptyGraph.committed
    /\ batch_mode = EmptyGraph.batch_mode
    /\ calls = 0
    /\ scan_order = "rowid"
    /\ ExpandIdle
    /\ records = {}
    /\ record_embeddings = {}
    /\ RetrieveIdle
    /\ BuildIdle
    /\ StoreIdle
    /\ CallsIdle

Next ==
    \/ AddNode
    \/ AddEdge
    \/ SeedGraph
    \/ AddRecordToGraph
    \/ SetBatchMode
    \/ ConnCommit

Spec == Init /\ [][Next]_vars

(***************************************************************************)
(* expand_neighbors on the graphs the writer builds.                        *)
(***************************************************************************)
RECURSIVE add_records(_, _)
add_records(g, recs) ==
    IF recs = <<>> THEN g
    ELSE LET g1 == add_record_to_graph(Head(recs), g)
         IN  IF g1.batch_mode = g.batch_mode THEN add_records(g1, Tail(recs)) ELSE g

RecA == CHOOSE r \in Records : r.id = "r1" /\ r.csharp_version = "9.0"

RecB == CHOOSE r \in Records : r.id = "r1" /\ r.csharp_version = "10.0"

RecC == CHOOSE r \in Records : r.id = "r2"

RecordRuns == {<<>>, <<RecA>>, <<RecC>>, <<RecA, RecC>>, <<RecC, RecB>>}

EdgeRuns ==
    { <<>>,
      <<GraphEdge("feature:r1", "feature:r2", "RELATED_TO", 10),
        GraphEdge("feature:r2", "feature:r1", "RELATED_TO", 5)>>,
      <<GraphEdge("feature:r1", "feature:r1", "RELATED_TO", 10),
        GraphEdge("feature:r1", "ghost:1", "REPLACES", 10)>>,
      <<GraphEdge("feature:r2", "feature:r1", "RELATED_TO", 5),
        GraphEdge("feature:r1", "feature:r1", "RELATED_TO", 10),
        GraphEdge("feature:r1", "feature:r2", "RELATED_TO", 10)>> }

BuiltGraphs ==
    { add_edges(add_records(IF seeded THEN seed_graph(EmptyGraph) ELSE EmptyGraph,
                            recs), extra) :
        seeded \in BOOLEAN, recs \in RecordRuns, extra \in EdgeRuns }

\* seed lists: empty, a stored feature, a version node, an id of no node, and
\* lists that name an id twice
SeedLists ==
    { <<>>, <<"feature:r1">>, <<"csharp:9.0">>, <<"ghost:1">>,
      <<"feature:r1", "csharp:9.0">>, <<"ghost:1", "feature:r2">>,
      <<"feature:r1", "feature:r1">>, <<"csharp:9.0", "feature:r2", "csharp:9.0">> }

ExpandNeighbors ==
    \E ids \in SeedLists, hops \in 0..MaxHops, nbs \in 0..MaxNeighbors :
        /\ ExpandBegin(ids, hops, nbs)
        /\ UNCHANGED <<gvars, scan_order, dbvars, rvars, fvars, bvars, svars, cvars>>

ExpandRun ==
    /\ ExpandStep
    /\ UNCHANGED <<gvars, scan_order, dbvars, rvars, fvars, bvars, svars, cvars>>

\* the locals of expand_neighbors are gone once it has returned
ExpandReset ==
    /\ ex_pc' = "idle"
    /\ node_ids' = <<>>
    /\ max_hops' = 0
    /\ max_neighbors_per_hop' = 0
    /\ visited' = {}
    /\ all_nodes' = <<>>
    /\ all_edges' = <<>>
    /\ current_frontier' = {}
    /\ next_frontier' = {}
    /\ hop' = 0
    /\ todo' = {}
    /\ node_hop' = <<>>
    /\ frontier_sizes' = <<>>

\* the caller takes the result; the next call starts from scratch
ExpandReturn ==
    /\ ex_pc = "done"
    /\ ExpandReset
    /\ UNCHANGED <<gvars, scan_order, dbvars, rvars, fvars, bvars, svars, cvars>>

InitExpand ==
    /\ \E g \in BuiltGraphs : 
        /\ graph_nodes = g.nodes
        /\ graph_edges = g.edges
        /\ committed = g.committed
        /\ batch_mode = g.batch_mode
    /\ calls = 0
    /\ scan_order \in ScanOrders
    /\ ExpandIdle
    /\ records = {}
    /\ record_embeddings = {}
    /\ RetrieveIdle
    /\ BuildIdle
    /\ StoreIdle
    /\ CallsIdle

NextExpand ==
    \/ ExpandNeighbors
    \/ ExpandRun
    \/ ExpandReturn

SpecExpand == InitExpand /\ [][NextExpand]_vars

\* the built graphs in which a stored node has a self-loop and two stored
\* nodes point at each other
CyclicGraphs ==
    { g \in BuiltGraphs :
        \E i, j, k \in 1..Len(g.edges) :
            /\ g.edges[i].source_id = g.edges[i].target_id
            /\ get_node(g.nodes, g.edges[i].source_id) # <<>>
            /\ g.edges[j].source_id # g.edges[j].target_id
            /\ g.edges[k].source_id = g.edges[j].target_id
            /\ g.edges[k].target_id = g.edges[j].source_id
            /\ get_node(g.nodes, g.edges[j].source_id) # <<>>
            /\ get_node(g.nodes, g.edges[j].target_id) # <<>> }

InitCyclic ==
    /\ \E g \in CyclicGraphs :
        /\ graph_nodes = g.nodes
        /\ graph_edges = g.edges
        /\ committed = g.committed
        /\ batch_mode = g.batch_mode
    /\ calls = 0
    /\ scan_order \in ScanOrders
    /\ ExpandIdle
    /\ records = {}
    /\ record_embeddings = {}
    /\ RetrieveIdle
    /\ BuildIdle
    /\ StoreIdle
    /\ CallsIdle

\* a call that has started keeps running: the program is sequential
FairSpecExpand == InitCyclic /\ [][NextExpand]_vars /\ WF_vars(ExpandRun)

(***************************************************************************)
(* Properties of the graph store and the builder.                           *)
(***************************************************************************)
Triple(e) == <<e.source_id, e.target_id, e.relation>>

NoDuplicateTriple(edges) ==
    \A i, j \in 1..Len(edges) : i # j => Triple(edges[i]) # Triple(edges[j])

NoDuplicateNodeId(nodes) ==
    \A n, m \in nodes : n.id = m.id => n = m

SeedNodeRows ==
    Range(create_version_nodes) \cup Range(create_runtime_nodes)
    \cup Range(create_framework_nodes)

C5_SeedIdempotent ==
    LET once == seed_graph(G)
        twice == seed_graph(once)
    IN  /\ twice.nodes = once.nodes
        /\ twice.edges = once.edges
        /\ Cardinality(twice.nodes) = Cardinality(once.nodes)
        /\ Len(twice.edges) = Len(once.edges)
        /\ NoDuplicateNodeId(twice.nodes)
        /\ NoDuplicateTriple(twice.edges)
        /\ ~batch_mode => twice.committed = once.committed

\* C5 witness: a seeded graph that also holds a feature with its edges and a
\* renamed version node; seeding it again is the second call of the claim.
C5_Witness ==
    /\ calls >= 2
    /\ Len(graph_edges) > Len(SeedEdges)
    /\ \A e \in Range(SeedEdges) : EdgeExists(graph_edges, e)
    /\ \E n \in graph_nodes : n.node_type = "feature"
    /\ seed_graph(G).nodes = graph_nodes

(***************************************************************************)
(* Properties of expand_neighbors.                                          *)
(***************************************************************************)
Running == ex_pc \in {"for", "inner"}

AddedInHop(k) == Cardinality({i \in 1..Len(node_hop) : node_hop[i] = k})

\* C2 (as claimed): the node list of expand_neighbors never holds the same
\* node id twice, whatever the seed list.
C2_NoNodeTwice ==
    \A i, j \in 1..Len(all_nodes) : i # j => all_nodes[i].id # all_nodes[j].id

\* C3: expand_neighbors runs at most max_hops hop iterations, starts no hop
\* after the first on an empty frontier, and every call reaches its return.
C3_ExpandTerminates ==
    /\ [](Len(frontier_sizes) <= max_hops)
    /\ [](\A k \in 2..Len(frontier_sizes) : frontier_sizes[k] > 0)
    /\ (Running ~> (ex_pc = "done"))

\* C3 witness: a call on a graph with a self-loop and a two-node cycle that
\* the hop bound stopped while its frontier was not empty.
C3_Witness ==
    /\ ex_pc = "done"
    /\ max_hops >= 1
    /\ Len(frontier_sizes) = max_hops
    /\ current_frontier # {}
    /\ \E i, j \in 1..Len(graph_edges) :
          /\ graph_edges[i].source_id = graph_edges[i].target_id
          /\ graph_edges[j].source_id = graph_edges[i].target_id
          /\ graph_edges[j].target_id # graph_edges[j].source_id

\* C4: the nodes added in hop k are at most (size of the frontier expanded in
\* hop k) * max_neighbors_per_hop, and no node is added in a hop beyond
\* max_hops.
C4_HopBudget ==
    /\ \A k \in 1..Len(frontier_sizes) :
          AddedInHop(k) <= frontier_sizes[k] * max_neighbors_per_hop
    /\ \A i \in 1..Len(node_hop) : node_hop[i] <= max_hops

\* C4 witness: a finished call whose first hop filled its budget although
\* the store held more neighbours than the cap let through.
C4_Witness ==
    /\ ex_pc = "done"
    /\ max_neighbors_per_hop >= 1
    /\ Len(frontier_sizes) >= 1
    /\ AddedInHop(1) = frontier_sizes[1] * max_neighbors_per_hop
    /\ AddedInHop(1) >= 1
    /\ \E nid \in Range(node_ids) :
          Len(get_neighbors_unlimited(graph_nodes, graph_edges, nid, 0, scan_order))
              > max_neighbors_per_hop

(***************************************************************************)
(* graph_rag.py: RAGContext.format_for_prompt.  The backquote of the code   *)
(* fence is written ' because a TLA+ string cannot hold a backquote; every  *)
(* length is the length of the text the code builds.                        *)
(***************************************************************************)
RAGResult(record, score, source, related_edges) ==
    [record |-> record, score |-> score, source |-> source,
     related_edges |-> related_edges]

RAGContext(results, nodes, edges) ==
    [results |-> results, graph_nodes |-> nodes, graph_edges |-> edges]

\* RAGContext(): every field at its default
EmptyContext == RAGContext(<<>>, <<>>, <<>>)

DefaultMaxChars == 3000

CodeLimit == 500

MaxAnnotations == 3

MaxVersionNames == 5

\* "".join(strs)
RECURSIVE Concat(_)
Concat(strs) == IF strs = <<>> THEN "" ELSE Head(strs) \o Concat(Tail(strs))

\* sep.join(strs)
RECURSIVE Join(_, _)
Join(sep, strs) ==
    IF strs = <<>> THEN ""
    ELSE IF Len(strs) = 1 THEN strs[1]
    ELSE strs[1] \o sep \o Join(sep, Tail(strs))

\* lines 68-72
CodeBlock(code) ==
    IF code # "" /\ code # "// No code extracted"
    THEN "'''csharp\n"
         \o (IF Len(code) > CodeLimit
             THEN SubSeq(code, 1, CodeLimit) \o "\n// ... (truncated)"
             ELSE code)
         \o "\n'''\n"
    ELSE ""

\* lines 75-76
LegacyLine(legacy_equivalent) ==
    IF legacy_equivalent # "" /\ legacy_equivalent # "N/A"
    THEN "Previously: " \o legacy_equivalent \o "\n"
    ELSE ""

\* lines 79-83
Relationships(related_edges) ==
    IF related_edges # <<>>
    THEN LET shown == SlicePrefix(related_edges, MaxAnnotations)
             rels == [k \in 1..Len(shown) |->
                        "  - " \o shown[k].relation \o ": " \o shown[k].target_id]
         IN  "Relationships:\n" \o Join("\n", rels) \o "\n"
    ELSE ""

\* lines 59-85: the block of the result at position i (counted from 1, the
\* number the block shows)
Section(i, result) ==
    LET r == result.record
    IN  "### [" \o ToString(i) \o "] " \o r.feature_name
        \o " (C# " \o r.csharp_version \o ", " \o r.dotnet_version \o ")\n"
        \o "Category: " \o r.category \o "\n"
        \o r.description \o "\n"
        \o CodeBlock(r.code_snippet)
        \o LegacyLine(r.legacy_equivalent)
        \o Relationships(result.related_edges)
        \o "\n"

\* a budget test that lets every block through
FitsBudgetAlways(char_count, section, limit) == TRUE

\* line 87, negated: the block is appended
FitsBudget(char_count, section, limit) == ~(char_count + Len(section) > limit)

\* a loop that goes on to the next block when one does not fit
RECURSIVE AppendSectionsSkipping(_, _, _, _, _)
AppendSectionsSkipping(results, i, acc, char_count, limit) ==
    IF i > Len(results) THEN acc
    ELSE LET section == CHOOSE x \in {Section(i, results[i])} : TRUE
         IN  IF FitsBudget(char_count, section, limit)
             THEN AppendSectionsSkipping(results, i + 1, Append(acc, section),
                                         char_count + Len(section), limit)
             ELSE AppendSectionsSkipping(results, i + 1, acc, char_count, limit)

\* lines 58-90: the loop from position i on
RECURSIVE AppendSections(_, _, _, _, _)
AppendSections(results, i, acc, char_count, limit) ==
    IF i > Len(results) THEN acc
    ELSE LET section == CHOOSE x \in {Section(i, results[i])} : TRUE
         IN  IF FitsBudget(char_count, section, limit)
             THEN AppendSections(results, i + 1, Append(acc, section),
                                 char_count + Len(section), limit)
             ELSE acc

IsVersionNode(n) == n.node_type = "csharp_version"

\* lines 93-96
VersionLine(nodes) ==
    LET version_nodes == SelectSeq(nodes, IsVersionNode)
        shown == SlicePrefix(version_nodes, MaxVersionNames)
    IN  IF version_nodes # <<>>
        THEN <<"Related versions: "
               \o Join(", ", [k \in 1..Len(shown) |-> shown[k].name]) \o "\n">>
        ELSE <<>>

Heading == "## Retrieved Context\n"

\* the list "parts" at line 98; empty when line 53 returns
format_parts(ctx, limit) ==
    IF ctx.results = <<>> THEN <<>>
    ELSE AppendSections(ctx.results, 1, <<Heading>>, 0, limit)
         \o VersionLine(ctx.graph_nodes)

format_for_prompt(ctx, limit) == Concat(format_parts(ctx, limit))

(***************************************************************************)
(* vectordb.py: the record store.  An embedding is a sequence of numbers;   *)
(* the 128 dimensions of the configuration are scaled down to EmbeddingDim  *)
(* and the numbers are integers.  A value that can be None is <<>> for      *)
(* None and <<v>> for v.                                                    *)
(***************************************************************************)
\* json.dumps of a str: a quote and a backslash get a backslash in front
RECURSIVE Escape(_, _)
Escape(s, i) ==
    IF i > Len(s) THEN ""
    ELSE LET c == SubSeq(s, i, i)
         IN  (IF c = "\"" THEN "\\\"" ELSE IF c = "\\" THEN "\\\\" ELSE c)
             \o Escape(s, i + 1)

\* json.dumps of a list of str
json_dumps(list) ==
    "[" \o Join(", ", [i \in 1..Len(list) |-> "\"" \o Escape(list[i], 1) \o "\""]) \o "]"

\* the JSON scanner on the text of a list of str: in_string says whether
\* position i is inside a string, item is the string read so far
RECURSIVE Scan(_, _, _, _, _)
Scan(text, i, in_string, item, list) ==
    IF i > Len(text) THEN list
    ELSE LET c == SubSeq(text, i, i)
         IN  IF ~in_string
             THEN Scan(text, i + 1, c = "\"", "", list)
             ELSE IF c = "\\"
                  THEN Scan(text, i + 2, TRUE, item \o SubSeq(text, i + 1, i + 1), list)
                  ELSE IF c = "\""
                       THEN Scan(text, i + 1, FALSE, "", Append(list, item))
                       ELSE Scan(text, i + 1, TRUE, item \o c, list)

\* json.loads of the text of a list of str
json_loads(text) == Scan(text, 1, FALSE, "", <<>>)

\* Category(v), CSharpVersion(v), ...: the member that has v; there is
\* none (ValueError) for a v outside the enumeration
EnumMember(enum, v) == enum[CHOOSE i \in 1..Len(enum) : enum[i] = v]

\* the column values of lines 124-139
Row(record) ==
    [id |-> record.id,
     category |-> record.category,
     csharp_version |-> record.csharp_version,
     dotnet_version |-> record.dotnet_version,
     feature_name |-> record.feature_name,
     description |-> record.description,
     code_snippet |-> record.code_snippet,
     legacy_equivalent |-> record.legacy_equivalent,
     nuget_packages |-> json_dumps(record.nuget_packages),
     source_url |-> record.source_url,
     validation_status |-> record.validation_status,
     validation_target |-> record.validation_target,
     validation_error |-> record.validation_error,
     tags |-> json_dumps(record.tags)]

row_to_record(row) ==
    [id |-> row.id,
     category |-> EnumMember(Category, row.category),
     csharp_version |-> EnumMember(CSharpVersion, row.csharp_version),
     dotnet_version |-> EnumMember(DotNetVersion, row.dotnet_version),
     feature_name |-> row.feature_name,
     description |-> row.description,
     code_snippet |-> row.code_snippet,
     legacy_equivalent |-> row.legacy_equivalent,
     nuget_packages |-> json_loads(row.nuget_packages),
     source_url |-> row.source_url,
     validation_status |-> EnumMember(ValidationStatus, row.validation_status),
     validation_target |-> row.validation_target,
     validation_error |-> row.validation_error,
     tags |-> json_loads(row.tags)]

\* INSERT OR IGNORE in the place of INSERT OR REPLACE: the first row stays
insert_or_ignore(recs, record) ==
    IF \E r \in recs : r.id = record.id THEN recs ELSE recs \cup {Row(record)}

\* INSERT OR REPLACE INTO records
insert(recs, record) == {r \in recs : r.id # record.id} \cup {Row(record)}

\* config.embedding_dim, the dim of "embedding FLOAT[{dim}]"
EmbeddingDim == 1

\* _serialize_vec: struct.pack of len(vec) floats, four bytes each
serialize_vec(vec) == [bytes |-> 4 * Len(vec), floats |-> vec]

\* the vec0 column "embedding FLOAT[{dim}]" takes a blob of dim floats and
\* raises on a blob of another size
store_embedding_raises(embedding) ==
    serialize_vec(embedding).bytes # 4 * EmbeddingDim

\* INSERT OR REPLACE on a column that takes a blob of any size
store_embedding_unchecked(embs, record_id, embedding) ==
    {e \in embs : e.id # record_id}
        \cup {[id |-> record_id, embedding |-> serialize_vec(embedding).floats]}

\* INSERT OR REPLACE INTO record_embeddings; the statement that raises
\* writes nothing
store_embedding(embs, record_id, embedding) ==
    IF store_embedding_raises(embedding) THEN embs
    ELSE {e \in embs : e.id # record_id}
             \cup {[id |-> record_id, embedding |-> serialize_vec(embedding).floats]}

get_by_id(recs, record_id) ==
    IF \E r \in recs : r.id = record_id
    THEN <<row_to_record(CHOOSE r \in recs : r.id = record_id)>>
    ELSE <<>>

\* the L2 distance of vec0, which in one dimension is the difference of the
\* coordinates
Distance(a, b) == IF a[1] < b[1] THEN b[1] - a[1] ELSE a[1] - b[1]

\* a query without its LIMIT
LimitNone(rows, k) == rows

\* LIMIT k of SQLite: a negative k is no limit
Limit(rows, k) == IF k < 0 THEN rows ELSE SubSeq(rows, 1, Min(k, Len(rows)))

\* the join without its ON: every record with every embedding
JoinedRowsNoOn(recs, embs, query_embedding) ==
    { [record |-> row_to_record(p[1]),
       distance |-> Distance(p[2].embedding, query_embedding)] : p \in recs \X embs }

\* record_embeddings JOIN records ON r.id = e.id, with the distance column
JoinedRows(recs, embs, query_embedding) ==
    { [record |-> row_to_record(p[1]),
       distance |-> Distance(p[2].embedding, query_embedding)] :
        p \in {p \in recs \X embs : p[1].id = p[2].id} }

\* the query without its ORDER BY: the rows in any order
Unordered(rows) ==
    { s \in [1..Cardinality(rows) -> rows] :
        \A i, j \in 1..Cardinality(rows) : i # j => s[i] # s[j] }

\* ORDER BY e.distance: every order of the rows in which no distance
\* decreases; rows at the same distance come in an order SQLite chooses
OrderedByDistance(rows) ==
    { s \in [1..Cardinality(rows) -> rows] :
        /\ \A i, j \in 1..Cardinality(rows) : i # j => s[i] # s[j]
        /\ \A i, j \in 1..Cardinality(rows) : i < j => s[i].distance <= s[j].distance }

\* "embedding MATCH ? ... LIMIT ?" on the vec0 table: the rows of
\* record_embeddings the join can get.  Where SQLite joins before it cuts,
\* these are all rows; where it hands the LIMIT to vec0, vec0 gives the k
\* rows nearest to the query and the join sees no other row.
MatchedEmbeddings(embs, query_embedding, k) ==
    LET with_distance ==
            { [id |-> e.id, embedding |-> e.embedding,
               distance |-> Distance(e.embedding, query_embedding)] : e \in embs }
        Nearest(s) == { [id |-> s[i].id, embedding |-> s[i].embedding] :
                          i \in 1..Len(Limit(s, k)) }
    IN  {embs} \cup { Nearest(s) : s \in OrderedByDistance(with_distance) }

\* the result lists search_similar can return
search_similar(recs, embs, query_embedding, k) ==
    UNION { { Limit(s, k) : s \in OrderedByDistance(JoinedRows(recs, matched, query_embedding)) } :
            matched \in MatchedEmbeddings(embs, query_embedding, k) }

(***************************************************************************)
(* graph_rag.py: GraphRAGRetriever.retrieve.                                *)
(***************************************************************************)
\* what embed_text raises when the model cannot be loaded or answers badly
ExceptionClasses == {"ValueError", "RuntimeError", "IndexError"}

\* vectors of the configured length, as _truncate_to_dim makes them
QueryVectors == {<<1>>, <<2>>}

\* embed_text returns a vector or raises
EmbedOutcomes ==
    {[raises |-> TRUE, exception |-> e, vector |-> <<>>] : e \in ExceptionClasses}
    \cup {[raises |-> FALSE, exception |-> "", vector |-> v] : v \in QueryVectors}

\* a retrieve without its try/except
CaughtByNothing(exception) == FALSE

\* line 133: "except Exception"
CaughtByExcept(exception) == exception \in ExceptionClasses

\* f"feature:{record.id}" of lines 154 and 165
Fid(record) == "feature:" \o record.id

\* str.startswith
StartsWith(s, prefix) ==
    Len(s) >= Len(prefix) /\ SubSeq(s, 1, Len(prefix)) = prefix

\* node.id[len("feature:"):]
RecordIdOf(node_id) == SubSeq(node_id, Len("feature:") + 1, Len(node_id))

\* an annotation that keeps only the edges leaving the node
TouchingEdgesFrom(edges, fid) ==
    LET kept == {i \in 1..Len(edges) : edges[i].source_id = fid}
    IN  [p \in 1..Cardinality(kept) |->
            edges[CHOOSE i \in kept : Cardinality({j \in kept : j < i}) = p - 1]]

\* [e for e in traversal.edges if e.source_id == fid or e.target_id == fid]
TouchingEdges(edges, fid) ==
    LET kept == {i \in 1..Len(edges) :
                    edges[i].source_id = fid \/ edges[i].target_id = fid}
    IN  [p \in 1..Cardinality(kept) |->
            edges[CHOOSE i \in kept : Cardinality({j \in kept : j < i}) = p - 1]]

GraphScore == 999

\* lines 148-153 and 164-169: the vector results with their annotations
VectorRagResults(vr, traversal) ==
    [i \in 1..Len(vr) |->
        RAGResult(vr[i].record, vr[i].distance, "vector",
                  TouchingEdges(traversal.edges, Fid(vr[i].record)))]

\* a membership test on seen_ids that never finds the id
SeenNever(record_id, seen_ids) == FALSE

\* line 176, negated
Seen(record_id, seen_ids) == record_id \in seen_ids

\* lines 173-188: the loop over traversal.nodes; st is
\* [rag_results, seen_ids, store_calls]
RECURSIVE AddGraphResults(_, _, _, _)
AddGraphResults(st, nodes, traversal, recs) ==
    IF nodes = <<>> THEN st
    ELSE LET node == Head(nodes)
             record_id == RecordIdOf(node.id)
             record == get_by_id(recs, record_id)
             st1 ==
                 IF node.node_type = "feature" /\ StartsWith(node.id, "feature:")
                    /\ ~Seen(record_id, st.seen_ids)
                 THEN IF record # <<>>
                      THEN [rag_results |->
                                Append(st.rag_results,
                                       RAGResult(record[1], GraphScore, "graph",
                                                 TouchingEdges(traversal.edges, node.id))),
                            seen_ids |-> st.seen_ids \cup {record_id},
                            store_calls |-> Append(st.store_calls, "get_by_id")]
                      ELSE [st EXCEPT !.store_calls = Append(@, "get_by_id")]
                 ELSE st
         IN  IF Len(st1.store_calls) >= Len(st.store_calls)
             THEN AddGraphResults(st1, Tail(nodes), traversal, recs)
             ELSE st

\* a key that puts the graph results first
SortKeyGraphFirst(r) == <<IF r.source = "vector" THEN 1 ELSE 0, r.score>>

\* the key of line 191
SortKey(r) == <<IF r.source = "vector" THEN 0 ELSE 1, r.score>>

\* order of Python tuples
KeyLess(a, b) == a[1] < b[1] \/ (a[1] = b[1] /\ a[2] < b[2])

\* line 191: rag_results.sort(key=...), a stable sort
SortResults(rag_results) ==
    LET pos(i) == 1 + Cardinality({j \in 1..Len(rag_results) :
                      \/ KeyLess(SortKey(rag_results[j]), SortKey(rag_results[i]))
                      \/ SortKey(rag_results[j]) = SortKey(rag_results[i]) /\ j < i})
    IN  [p \in 1..Len(rag_results) |->
            rag_results[CHOOSE i \in 1..Len(rag_results) : pos(i) = p]]

\* lines 163-197, given the traversal; the result is [context, store_calls]
Merge(vr, traversal, recs, log) ==
    LET vector_part == VectorRagResults(vr, traversal)
        st == AddGraphResults(
                  [rag_results |-> vector_part,
                   seen_ids |-> {vr[i].record.id : i \in 1..Len(vr)},
                   store_calls |-> log],
                  traversal.nodes, traversal, recs)
    IN  [context |-> RAGContext(SortResults(st.rag_results), traversal.nodes,
                                traversal.edges),
         store_calls |-> st.store_calls]

(***************************************************************************)
(* retrieve and format_for_prompt as the shell calls them (cli.py lines     *)
(* 421-422), on record stores and graphs built through the stores' writers. *)
(***************************************************************************)
MaxTopK == 2

Text10 == "0123456789"

Text100 == Text10 \o Text10 \o Text10 \o Text10 \o Text10 \o Text10 \o Text10 \o Text10 \o Text10 \o Text10

\* a code snippet of 600 characters
LongCode == Text100 \o Text100 \o Text100 \o Text100 \o Text100 \o Text100

RecL == DotNetRecord("r3", "bcl", "12.0", ".NET 8.0", "Span", "Contiguous memory", LongCode, "arrays", <<>>)

RECURSIVE insert_all(_, _)
insert_all(recs, batch) ==
    IF batch = <<>> THEN recs ELSE insert_all(insert(recs, Head(batch)), Tail(batch))

RECURSIVE store_embeddings_batch(_, _)
store_embeddings_batch(embs, pairs) ==
    IF pairs = <<>> THEN embs
    ELSE store_embeddings_batch(store_embedding(embs, Head(pairs)[1], Head(pairs)[2]),
                                Tail(pairs))

\* an empty store; r1 and r2 with embeddings at different points; r1 with an
\* embedding that was stored twice, r2 and r3 without one, and an embedding
\* of no record; r1 and r3 with embeddings at the same point
RecordStores ==
    { [records |-> insert_all({}, run[1]),
       record_embeddings |-> store_embeddings_batch({}, run[2])] :
        run \in { <<<<>>, <<>>>>,
                  <<<<RecB, RecA, RecC>>, <<<<"r1", <<1>>>>, <<"r2", <<3>>>>>>>>,
                  <<<<RecA, RecC, RecL>>,
                    <<<<"r1", <<2>>>>, <<"r1", <<1>>>>, <<"r9", <<1>>>>>>>>,
                  <<<<RecA, RecC, RecL>>, <<<<"r1", <<2>>>>, <<"r3", <<2>>>>>>>> } }

LongNamedVersion ==
    GraphNode("csharp:9.0", "csharp_version",
              "C# 9.0 (records, init-only setters, top-level statements, "
              \o "pattern matching enhancements, target-typed new expressions)",
              EmptyProps)

\* no graph; the seeded graph of r1, r2 and r3 in which r1 points at r2 and
\* r3 with heavy edges and r2 points back; a graph of r2 alone whose version
\* node carries a descriptive name
RetrieveGraphs ==
    { EmptyGraph,
      add_edges(add_records(seed_graph(EmptyGraph), <<RecA, RecC, RecL>>),
                <<GraphEdge("feature:r1", "feature:r2", "RELATED_TO", 20),
                  GraphEdge("feature:r1", "feature:r3", "REPLACES", 15),
                  GraphEdge("feature:r2", "feature:r1", "RELATED_TO", 5)>>),
      add_node(add_records(EmptyGraph, <<RecC>>), LongNamedVersion) }

\* lines 130-135
Retrieve ==
    /\ rt_pc = "idle"
    /\ \E k \in 0..MaxTopK, hops \in 0..MaxHops, nbs \in 0..MaxNeighbors,
          embedded \in EmbedOutcomes :
        /\ top_k' = k
        /\ graph_hops' = hops
        /\ graph_neighbors' = nbs
        /\ IF ~embedded.raises
           THEN /\ query_vec' = <<embedded.vector>>
                /\ rt_pc' = "embedded"
                /\ context' = context
           ELSE /\ query_vec' = query_vec
                /\ IF CaughtByExcept(embedded.exception)
                   THEN rt_pc' = "returned" /\ context' = <<EmptyContext>>
                   ELSE rt_pc' = "raised" /\ context' = context
    /\ UNCHANGED <<gvars, scan_order, evars, dbvars, vector_results, store_calls, fvars, bvars, svars, cvars>>

\* line 140: "if not vector_results"
NoResults(results) == results = <<>>

\* a read that takes the rows out of the table
after_select_taking(table) == {}

\* a table of the record store after search_similar or get_by_id, which run
\* a SELECT and no other statement
after_select(table) == table

\* lines 138-161
RetrieveSearch ==
    /\ rt_pc = "embedded"
    /\ \E found \in search_similar(records, record_embeddings, query_vec[1], top_k) :
        /\ vector_results' = found
        /\ IF NoResults(found)
           THEN /\ store_calls' = Append(store_calls, "search_similar")
                /\ rt_pc' = "returned"
                /\ context' = <<EmptyContext>>
                /\ UNCHANGED evars
           ELSE /\ store_calls' = store_calls \o <<"search_similar", "expand_neighbors">>
                /\ rt_pc' = "expanding"
                /\ context' = context
                /\ ExpandBegin([i \in 1..Len(found) |-> Fid(found[i].record)],
                               graph_hops, graph_neighbors)
    /\ records' = after_select(records)
    /\ record_embeddings' = after_select(record_embeddings)
    /\ UNCHANGED <<gvars, scan_order, query_vec, top_k, graph_hops,
                   graph_neighbors, fvars, bvars, svars, cvars>>

\* lines 163-197, once expand_neighbors has returned
RetrieveMerge ==
    /\ rt_pc = "expanding"
    /\ ex_pc = "done"
    /\ \E merged \in {Merge(vector_results, TraversalResult, records, store_calls)} :
        /\ context' = <<merged.context>>
        /\ store_calls' = merged.store_calls
    /\ rt_pc' = "returned"
    /\ ExpandReset
    /\ records' = after_select(records)
    /\ UNCHANGED <<gvars, scan_order, record_embeddings, query_vec, top_k, graph_hops,
                   graph_neighbors, vector_results, fvars, bvars, svars, cvars>>

\* char_count after the first k blocks, were each of them appended
BlockChars(results, k) ==
    LET RECURSIVE Sum(_)
        Sum(i) == IF i = 0 THEN 0 ELSE Sum(i - 1) + Len(Section(i, results[i]))
    IN  Sum(k)

\* budgets: none, the default, and the ones at which a block just fits or
\* just fails to fit
Budgets(ctx) ==
    {0, DefaultMaxChars}
    \cup {BlockChars(ctx.results, k) : k \in 1..Len(ctx.results)}
    \cup {BlockChars(ctx.results, k) - 1 : k \in 1..Len(ctx.results)}

\* context.format_for_prompt(max_chars=...) on the context retrieve returned
FormatForPrompt ==
    /\ rt_pc = "returned"
    /\ output = <<>>
    /\ \E limit \in Budgets(context[1]) :
        \E built \in {format_parts(context[1], limit)} :
            /\ max_chars' = limit
            /\ parts' = built
            /\ output' = <<Concat(built)>>
    /\ UNCHANGED <<gvars, scan_order, evars, dbvars, rvars, bvars, svars, cvars>>

\* the shell goes on to its next turn
RetrieveDone ==
    /\ rt_pc = "returned"
    /\ rt_pc' = "idle"
    /\ query_vec' = <<>>
    /\ top_k' = 0
    /\ graph_hops' = 0
    /\ graph_neighbors' = 0
    /\ vector_results' = <<>>
    /\ context' = <<>>
    /\ store_calls' = <<>>
    /\ max_chars' = 0
    /\ parts' = <<>>
    /\ output' = <<>>
    /\ UNCHANGED <<gvars, scan_order, evars, dbvars, bvars, svars, cvars>>

InitRetrieve ==
    /\ \E g \in RetrieveGraphs :
        /\ graph_nodes = g.nodes
        /\ graph_edges = g.edges
        /\ committed = g.committed
        /\ batch_mode = g.batch_mode
    /\ calls = 0
    /\ scan_order \in ScanOrders
    /\ ExpandIdle
    /\ \E db \in RecordStores :
        /\ records = db.records
        /\ record_embeddings = db.record_embeddings
    /\ RetrieveIdle
    /\ BuildIdle
    /\ StoreIdle
    /\ CallsIdle

NextRetrieve ==
    \/ Retrieve
    \/ RetrieveSearch
    \/ ExpandRun
    \/ RetrieveMerge
    \/ FormatForPrompt
    \/ RetrieveDone

SpecRetrieve == InitRetrieve /\ [][NextRetrieve]_vars

(***************************************************************************)
(* Properties of retrieve.                                                  *)
(***************************************************************************)
Returned == rt_pc = "returned"

EmbedFailed == Returned /\ query_vec = <<>>

Results == context[1].results

\* position at which the traversal first listed the feature node of a record
Discovered(record) ==
    CHOOSE i \in 1..Len(context[1].graph_nodes) :
        /\ context[1].graph_nodes[i].id = Fid(record)
        /\ \A j \in 1..(i - 1) : context[1].graph_nodes[j].id # Fid(record)

\* C6: a retrieve whose embed_text raised returns the empty context, does not
\* raise and has called neither store; a retrieve whose similarity search
\* found nothing returns the empty context and has not called
\* expand_neighbors.
C6_EmptyContextOnFailure ==
    /\ rt_pc # "raised"
    /\ EmbedFailed =>
          /\ context = <<EmptyContext>>
          /\ store_calls = <<>>
          /\ ex_pc = "idle"
    /\ (Returned /\ query_vec # <<>> /\ vector_results = <<>>) =>
          /\ context = <<EmptyContext>>
          /\ store_calls = <<"search_similar">>
          /\ ex_pc = "idle"

\* C6 witness: embed_text raised although the record store had a row for
\* every embedding and the graph had the feature nodes.
C6_Witness ==
    /\ EmbedFailed
    /\ top_k >= 1
    /\ search_similar(records, record_embeddings, <<1>>, top_k) # {<<>>}
    /\ get_node(graph_nodes, "feature:r1") # <<>>

\* C7: in a returned context every vector result stands before every graph
\* result, the vector results are in ascending distance order, and the graph
\* results all have the score 999 and stand in the order in which the
\* traversal listed their feature nodes.
C7_ResultOrder ==
    (Returned /\ context # <<>>) =>
        \A i, j \in 1..Len(Results) :
            /\ Results[i].source = "graph" => Results[i].score = GraphScore
            /\ i < j =>
                /\ Results[i].source = "graph" => Results[j].source = "graph"
                /\ (Results[i].source = "vector" /\ Results[j].source = "vector")
                      => Results[i].score <= Results[j].score
                /\ (Results[i].source = "graph" /\ Results[j].source = "graph")
                      => Discovered(Results[i].record) < Discovered(Results[j].record)

\* C7 witness: a context with a vector result followed by two graph results.
C7_Witness ==
    /\ Returned
    /\ context # <<>>
    /\ Len(Results) >= 3
    /\ Results[1].source = "vector"
    /\ Results[2].source = "graph"
    /\ Results[3].source = "graph"

\* C8: no two results of a returned context hold the same record id, and no
\* graph result holds a record that the similarity search returned.
C8_NoRecordTwice ==
    (Returned /\ context # <<>>) =>
        /\ \A i, j \in 1..Len(Results) :
              i # j => Results[i].record.id # Results[j].record.id
        /\ \A i \in 1..Len(Results) :
              Results[i].source = "graph" =>
                  \A k \in 1..Len(vector_results) :
                      vector_results[k].record.id # Results[i].record.id

\* C8 witness: two vector results whose feature nodes the traversal listed
\* and reached again over an edge.
C8_Witness ==
    /\ Returned
    /\ context # <<>>
    /\ Len(vector_results) = 2
    /\ \A k \in 1..2 :
          /\ \E i \in 1..Len(context[1].graph_nodes) :
                context[1].graph_nodes[i].id = Fid(vector_results[k].record)
          /\ TouchingEdges(context[1].graph_edges, Fid(vector_results[k].record)) # <<>>

(***************************************************************************)
(* Properties of format_for_prompt.                                         *)
(***************************************************************************)
Formatted == output # <<>>

\* length of the longest block of the context
LongestBlock ==
    LET lens == {Len(Section(i, Results[i])) : i \in 1..Len(Results)}
    IN  IF lens = {} THEN 0 ELSE CHOOSE m \in lens : \A l \in lens : l <= m

\* number of blocks in parts
Emitted == Len(parts) - 1 - Len(VersionLine(context[1].graph_nodes))

\* C9: the parts of a formatted context are the heading, then the first k
\* blocks, each whole, then the version line if there is one; the lengths of
\* these k blocks add up to at most max_chars.
C9_WholeBlocksWithinBudget ==
    (Formatted /\ Results # <<>>) =>
        /\ Emitted \in 0..Len(Results)
        /\ parts = <<Heading>> \o [i \in 1..Emitted |-> Section(i, Results[i])]
                   \o VersionLine(context[1].graph_nodes)
        /\ BlockChars(Results, Emitted) <= max_chars
        /\ output = <<Concat(parts)>>

\* C9 witness: the budget let the first block through and stopped the second,
\* and a code snippet was cut.
C9_Witness ==
    /\ Formatted
    /\ Results # <<>>
    /\ Emitted >= 1
    /\ Emitted < Len(Results)
    /\ \E i \in 1..Len(Results) : Len(Results[i].record.code_snippet) > CodeLimit

\* C10 (as claimed): the formatted string, heading and version line included,
\* is at most max_chars plus the length of one block of the context.
C10_LengthWithinBudgetPlusBlock ==
    Formatted => Len(output[1]) <= max_chars + LongestBlock

(***************************************************************************)
(* Scenarios of retrieve.                                                   *)
(***************************************************************************)
\* the records of the record store
StoredRecords == {row_to_record(row) : row \in records}

\* an embedding equal to v is stored for an id that no record has
Orphan(v) ==
    \E e \in record_embeddings :
        e.embedding = v /\ get_by_id(records, e.id) = <<>>

\* record R is stored with an embedding equal to v
HasEmbedding(R, v) ==
    get_by_id(records, R.id) = <<R>>
    /\ \E e \in record_embeddings : e.id = R.id /\ e.embedding = v

\* a returned retrieve(top_k=1, graph_hops=0) whose query embedding is the
\* stored embedding of some record
ExactMatchCase ==
    /\ Returned
    /\ query_vec # <<>>
    /\ top_k = 1
    /\ graph_hops = 0
    /\ \E R \in StoredRecords : HasEmbedding(R, query_vec[1])

\* C11 (as claimed): for every record R whose stored embedding is the query
\* embedding, retrieve with top_k=1 and max_hops=0 returns exactly one
\* result, of vector origin, and it is R.
C11_ExactMatchIsTheResult ==
    ExactMatchCase =>
        \A R \in StoredRecords :
            HasEmbedding(R, query_vec[1]) =>
                /\ Len(Results) = 1
                /\ Results[1].source = "vector"
                /\ Results[1].record = R

\* C11 (amended): retrieve with top_k=1 and max_hops=0 on a query embedding
\* that some record has returns at most one result and no graph result; a
\* result is of vector origin and at distance 0 and its record has the
\* query embedding, so it is R whenever R is the only record with that
\* embedding.  There is a result unless the query embedding is also stored
\* for an id that no record has.
C11_ExactMatchOneVectorResult ==
    ExactMatchCase =>
        /\ Len(Results) <= 1
        /\ ~Orphan(query_vec[1]) => Len(Results) = 1
        /\ Len(Results) = 1 =>
              /\ Results[1].source = "vector"
              /\ Results[1].score = 0
              /\ HasEmbedding(Results[1].record, query_vec[1])

\* C11 witness: the one result came back although the record store held
\* other records and the graph held edges from the result's feature node to
\* other features.
C11_Witness ==
    /\ ExactMatchCase
    /\ Len(Results) = 1
    /\ Cardinality(records) >= 3
    /\ \E i \in 1..Len(graph_edges) :
          /\ graph_edges[i].source_id = Fid(Results[1].record)
          /\ graph_edges[i].relation = "RELATED_TO"

(***************************************************************************)
(* The version scenario: seed_graph, add_record_to_graph for language       *)
(* records, then expand_neighbors from a version node with max_hops=1 and   *)
(* the default cap.                                                         *)
(***************************************************************************)
DefaultNeighborsPerHop == 5

LanguageRecord(id, csharp_version, dotnet_version) ==
    DotNetRecord(id, "language", csharp_version, dotnet_version, "Feature " \o id, "About " \o id, "// No code extracted", "N/A", <<>>)

\* the three records of the scenario, then five more records of version 9.0
ScenarioPool ==
    << LanguageRecord("s1", "9.0", ".NET 5.0"),
       LanguageRecord("s2", "10.0", ".NET 6.0"),
       LanguageRecord("s3", "11.0", ".NET 7.0"),
       LanguageRecord("s4", "9.0", ".NET 5.0"),
       LanguageRecord("s5", "9.0", ".NET 5.0"),
       LanguageRecord("s6", "9.0", ".NET 5.0"),
       LanguageRecord("s7", "9.0", ".NET 5.0"),
       LanguageRecord("s8", "9.0", ".NET 5.0") >>

ScenarioRecords == {ScenarioPool[1], ScenarioPool[2], ScenarioPool[3]}

\* has the record at position k of the pool been added
Added(k) == get_node(graph_nodes, feature_node_id(ScenarioPool[k])) # <<>>

VersionSeeds == {"csharp:9.0", "csharp:10.0", "csharp:14.0"}

ScenarioSeed ==
    /\ ex_pc = "idle"
    /\ calls = 0
    /\ calls' = 1
    /\ SetGraph(seed_graph(G))
    /\ UNCHANGED <<scan_order, evars, dbvars, rvars, fvars, bvars, svars, cvars>>

\* records are added in the order of the pool, any of them left out
ScenarioAddRecord ==
    /\ ex_pc = "idle"
    /\ calls >= 1
    /\ \E k \in 1..Len(ScenarioPool) :
        /\ \A later \in k..Len(ScenarioPool) : ~Added(later)
        /\ SetGraph(add_record_to_graph(ScenarioPool[k], G))
    /\ calls' = calls + 1
    /\ UNCHANGED <<scan_order, evars, dbvars, rvars, fvars, bvars, svars, cvars>>

ScenarioExpand ==
    /\ calls >= 1
    /\ \E V \in VersionSeeds : ExpandBegin(<<V>>, 1, DefaultNeighborsPerHop)
    /\ UNCHANGED <<gvars, scan_order, dbvars, rvars, fvars, bvars, svars, cvars>>

InitScenario ==
    /\ graph_nodes = EmptyGraph.nodes
    /\ graph_edges = EmptyGraph.edges
    /\ committed = EmptyGraph.committed
    /\ batch_mode = EmptyGraph.batch_mode
    /\ calls = 0
    /\ scan_order \in ScanOrders
    /\ ExpandIdle
    /\ records = {}
    /\ record_embeddings = {}
    /\ RetrieveIdle
    /\ BuildIdle
    /\ StoreIdle
    /\ CallsIdle

NextScenario ==
    \/ ScenarioSeed
    \/ ScenarioAddRecord
    \/ ScenarioExpand
    \/ ExpandRun
    \/ ExpandReturn

SpecScenario == InitScenario /\ [][NextScenario]_vars

\* the ids of the nodes expand_neighbors has listed
ResultIds == {all_nodes[i].id : i \in 1..Len(all_nodes)}

\* node ids at the other end of the edges of the given relation into V / out of V
SourcesInto(V, relation) ==
    {graph_edges[i].source_id : i \in {j \in 1..Len(graph_edges) :
        graph_edges[j].target_id = V /\ graph_edges[j].relation = relation}}

TargetsOutOf(V, relation) ==
    {graph_edges[i].target_id : i \in {j \in 1..Len(graph_edges) :
        graph_edges[j].source_id = V /\ graph_edges[j].relation = relation}}

\* expand_neighbors([V], max_hops=1) with the default cap has returned
VersionExpanded ==
    /\ ex_pc = "done"
    /\ Len(node_ids) = 1
    /\ max_hops = 1
    /\ max_neighbors_per_hop = DefaultNeighborsPerHop

ScenarioBuilt ==
    \A record \in ScenarioRecords : get_node(graph_nodes, feature_node_id(record)) # <<>>

\* C12 (as claimed): the result of expanding a version node V holds the next
\* version's node and every feature node with an INTRODUCED_IN edge to V,
\* and in the scenario the result for 9.0 holds all three feature nodes.
C12_VersionNeighborhoodAsClaimed ==
    VersionExpanded =>
        /\ TargetsOutOf(node_ids[1], "EVOLVED_INTO") \subseteq ResultIds
        /\ SourcesInto(node_ids[1], "INTRODUCED_IN") \subseteq ResultIds
        /\ (ScenarioBuilt /\ node_ids[1] = "csharp:9.0") =>
              {feature_node_id(record) : record \in ScenarioRecords} \subseteq ResultIds

\* C12 (amended): with n the number of feature nodes that have an
\* INTRODUCED_IN edge to V, the result holds all of them when n is at most
\* the cap of five and the next version's node when n is below the cap;
\* every feature node it holds has an INTRODUCED_IN edge to V, so in the
\* scenario the result for 9.0 holds the feature of 9.0 and neither the
\* feature of 10.0 nor the feature of 11.0.
C12_VersionNeighborhood ==
    VersionExpanded =>
        LET V == node_ids[1]
            n == Cardinality(SourcesInto(V, "INTRODUCED_IN"))
        IN  /\ n < DefaultNeighborsPerHop =>
                  TargetsOutOf(V, "EVOLVED_INTO") \subseteq ResultIds
            /\ n <= DefaultNeighborsPerHop =>
                  SourcesInto(V, "INTRODUCED_IN") \subseteq ResultIds
            /\ \A i \in 1..Len(all_nodes) :
                  all_nodes[i].node_type = "feature" =>
                      all_nodes[i].id \in SourcesInto(V, "INTRODUCED_IN")

\* C12 witness: the scenario itself, expanded from 9.0: the result holds the
\* 10.0 node and the feature of 9.0.
C12_Witness ==
    /\ VersionExpanded
    /\ node_ids[1] = "csharp:9.0"
    /\ ScenarioBuilt
    /\ Cardinality(SourcesInto("csharp:9.0", "INTRODUCED_IN")) = 1
    /\ "csharp:10.0" \in ResultIds
    /\ "feature:s1" \in ResultIds

(***************************************************************************)
(* graph_builder.py: build_graph_from_records, one store call or statement  *)
(* at a time, with a process that can die at any point and be started       *)
(* again.  The window of 5000 records (lines 269-270) is scaled down to     *)
(* CommitWindow records.                                                    *)
(***************************************************************************)
CommitWindow == 2

MaxCrashes == 2

Step(op, arg) == [op |-> op, arg |-> arg]

\* seed_graph (lines 146-171) as the store calls it makes
SeedSteps ==
    <<Step("add_nodes_batch",
           create_version_nodes \o create_runtime_nodes \o create_framework_nodes)>>
    \o [i \in 1..Len(SeedEdges) |-> Step("add_edge", SeedEdges[i])]

\* lines 222-244: the package loop of add_record_to_graph
RECURSIVE PackageSteps(_, _)
PackageSteps(feature_id, pkgs) ==
    IF pkgs = <<>> THEN <<>>
    ELSE <<Step("add_node", GraphNode(package_node_id(Head(pkgs)), "nuget_package",
                                      Head(pkgs), EmptyProps)),
           Step("add_edge", GraphEdge(feature_id, package_node_id(Head(pkgs)),
                                      "USES_PACKAGE", DefaultWeight))>>
         \o PackageSteps(feature_id, Tail(pkgs))

\* add_record_to_graph (lines 185-244) as the store calls it makes
RecordSteps(record) ==
    LET feature_id == feature_node_id(record)
    IN  <<Step("add_node",
               GraphNode(feature_id, "feature", record.feature_name,
                         [category |-> record.category,
                          csharp_version |-> record.csharp_version,
                          dotnet_version |-> record.dotnet_version,
                          validation_status |-> record.validation_status])),
          Step("add_edge", GraphEdge(feature_id, version_node_id(record.csharp_version),
                                     "INTRODUCED_IN", DefaultWeight)),
          Step("add_edge", GraphEdge(feature_id, runtime_node_id(record.dotnet_version),
                                     "REQUIRES_RUNTIME", DefaultWeight)),
          Step("add_edge", GraphEdge(feature_id, category_node_id(record.category),
                                     "PART_OF", DefaultWeight))>>
        \o PackageSteps(feature_id, record.nuget_packages)

\* lines 269-270: "if (i + 1) % 5000 == 0: graph.conn.commit()", i counted from 1 here
WindowSteps(i) == IF i % CommitWindow = 0 THEN <<Step("commit", <<>>)>> ELSE <<>>

\* lines 265-272: the record loop from record i on
RECURSIVE LoopSteps(_, _)
LoopSteps(recs, i) ==
    IF i > Len(recs) THEN <<>>
    ELSE RecordSteps(recs[i]) \o WindowSteps(i) \o LoopSteps(recs, i + 1)

\* lines 260-274
BuildSteps(recs) ==
    SeedSteps
    \o <<Step("batch_mode", TRUE)>>
    \o LoopSteps(recs, 1)
    \o <<Step("commit", <<>>), Step("batch_mode", FALSE)>>

\* the effect of one step on the store
Apply(g, step) ==
    CASE step.op = "add_nodes_batch" -> add_nodes_batch(g, step.arg)
      [] step.op = "add_node" -> add_node(g, step.arg)
      [] step.op = "add_edge" -> add_edge(g, step.arg)
      [] step.op = "commit" -> Commit(g)
      [] step.op = "batch_mode" -> [g EXCEPT !.batch_mode = step.arg]

RECURSIVE RunSteps(_, _, _)
RunSteps(g, steps, k) ==
    IF k > Len(steps) THEN g
    ELSE LET g1 == Apply(g, steps[k])
         IN  IF g1.batch_mode \in BOOLEAN THEN RunSteps(g1, steps, k + 1) ELSE g

\* a build_graph_from_records call that runs to its return
build_graph_from_records(recs, g) == RunSteps(g, BuildSteps(recs), 1)

\* is step k of the build a store call made by add_record_to_graph
InAddRecord(recs, k) ==
    /\ k > Len(SeedSteps) + 1
    /\ k <= Len(BuildSteps(recs))
    /\ BuildSteps(recs)[k].op \in {"add_node", "add_edge"}

\* the record lists handed to the builder: none, one record, and three
\* records two of which have the same id
BuildInputs == {<<>>, <<RecC>>, <<RecA, RecC, RecB>>}

\* line 249: the call, on a fresh process
BuildStart ==
    /\ b_pc \in {"idle", "crashed"}
    /\ \E recs \in BuildInputs :
        /\ b_pc = "crashed" => recs = b_records
        /\ b_records' = recs
    /\ b_pc' = "running"
    /\ b_k' = 0
    /\ UNCHANGED <<gvars, scan_order, evars, dbvars, rvars, fvars, b_crashes, b_lost, svars, cvars>>

\* the next store call or statement of the build
BuildStep ==
    /\ b_pc = "running"
    /\ b_k < Len(BuildSteps(b_records))
    /\ \E g \in {Apply(G, BuildSteps(b_records)[b_k + 1])} : SetGraph(g)
    /\ b_k' = b_k + 1
    /\ UNCHANGED <<calls, scan_order, evars, dbvars, rvars, fvars, b_pc, b_records,
                   b_crashes, b_lost, svars, cvars>>

\* line 275-287: the return
BuildReturn ==
    /\ b_pc = "running"
    /\ b_k = Len(BuildSteps(b_records))
    /\ b_pc' = "done"
    /\ UNCHANGED <<gvars, scan_order, evars, dbvars, rvars, fvars, b_records, b_k,
                   b_crashes, b_lost, svars, cvars>>

\* a store call of add_record_to_graph raises (sqlite3.OperationalError when
\* the database is locked or the disk is full); nothing catches it and
\* build_graph_from_records is left at line 267
BuildRaise ==
    /\ b_pc = "running"
    /\ InAddRecord(b_records, b_k + 1)
    /\ b_pc' = "raised"
    /\ UNCHANGED <<gvars, scan_order, evars, dbvars, rvars, fvars, b_records, b_k,
                   b_crashes, b_lost, svars, cvars>>

\* what a new process finds: the committed tables, through a new GraphDB
CrashState(g) ==
    [nodes |-> g.committed.nodes, edges |-> g.committed.edges,
     committed |-> g.committed, batch_mode |-> FALSE]

\* the process dies
Crash ==
    /\ b_pc \in {"running", "raised"}
    /\ b_crashes < MaxCrashes
    /\ b_crashes' = b_crashes + 1
    /\ b_pc' = "crashed"
    /\ b_lost' = b_lost + Cardinality(graph_nodes \ committed.nodes)
                  + Len(graph_edges) - Len(committed.edges)
    /\ SetGraph(CrashState(G))
    /\ UNCHANGED <<calls, scan_order, evars, dbvars, rvars, fvars, b_records, b_k, svars, cvars>>

InitBuild ==
    /\ graph_nodes = EmptyGraph.nodes
    /\ graph_edges = EmptyGraph.edges
    /\ committed = EmptyGraph.committed
    /\ batch_mode = EmptyGraph.batch_mode
    /\ calls = 0
    /\ scan_order = "rowid"
    /\ ExpandIdle
    /\ records = {}
    /\ record_embeddings = {}
    /\ RetrieveIdle
    /\ BuildIdle
    /\ StoreIdle
    /\ CallsIdle

NextBuild ==
    \/ BuildStart
    \/ BuildStep
    \/ BuildReturn
    \/ BuildRaise
    \/ Crash

SpecBuild == InitBuild /\ [][NextBuild]_vars

(***************************************************************************)
(* Properties of build_graph_from_records.                                  *)
(***************************************************************************)
NodeIds(nodes) == {n.id : n \in nodes}

TripleSet(edges) == {Triple(edges[i]) : i \in 1..Len(edges)}

\* the store after one build of b_records that nothing interrupted
Uninterrupted == build_graph_from_records(b_records, EmptyGraph)

\* C13: a process that dies keeps the committed rows and loses the others:
\* the tables it finds afterwards are the committed ones.  Every build that
\* then runs to its return leaves the node ids and the edge triples of an
\* uninterrupted build, committed, with no node id and no edge triple twice.
C13_CrashThenRerun ==
    /\ [][b_crashes' > b_crashes =>
            /\ committed' = committed
            /\ graph_nodes' = committed.nodes
            /\ graph_edges' = committed.edges]_vars
    /\ [](b_pc = "done" =>
            /\ NodeIds(graph_nodes) = NodeIds(Uninterrupted.nodes)
            /\ TripleSet(graph_edges) = TripleSet(Uninterrupted.edges)
            /\ NoDuplicateNodeId(graph_nodes)
            /\ NoDuplicateTriple(graph_edges)
            /\ committed.nodes = graph_nodes
            /\ committed.edges = graph_edges)

\* C13 witness: a build of three records returned after the process had died
\* twice and lost rows.
C13_Witness ==
    /\ b_pc = "done"
    /\ b_crashes = MaxCrashes
    /\ b_lost > 0
    /\ Len(b_records) = 3

\* C14 (as claimed): add_record_to_graph runs after seed_graph and in batch
\* mode, and whenever build_graph_from_records is left, by its return or by
\* an exception, batch mode is off and every row is committed.
C14_ExitLeavesStoreConsistent ==
    /\ (b_pc = "running" /\ InAddRecord(b_records, b_k + 1)) =>
          /\ batch_mode
          /\ SeedNodeRows \subseteq graph_nodes
    /\ b_pc \in {"done", "raised"} =>
          /\ ~batch_mode
          /\ committed.nodes = graph_nodes
          /\ committed.edges = graph_edges

(***************************************************************************)
(* Properties of the commit discipline of add_node and add_edge.            *)
(***************************************************************************)
\* the tables as a reader on another connection sees them
ReaderView == committed

Visible == [nodes |-> graph_nodes, edges |-> graph_edges]

\* C15: outside batch mode an add_node call, and an add_edge call that
\* inserts a row, returns with every row committed; in batch mode an
\* add_node or add_edge call leaves the committed tables, which are what a
\* reader on another connection sees, as they were.
C15_CommitUnlessBatch ==
    [][/\ (AddNode /\ ~batch_mode) => committed' = Visible'
       /\ (AddEdge /\ ~batch_mode /\ graph_edges' # graph_edges) => committed' = Visible'
       /\ ((AddNode \/ AddEdge) /\ batch_mode) => ReaderView' = ReaderView]_vars

\* C15 witness: in batch mode, after a committed write, a node row and an
\* edge row have been written that a reader on another connection does not
\* see.
C15_Witness ==
    /\ batch_mode
    /\ calls >= 3
    /\ ReaderView.nodes # {}
    /\ ReaderView.nodes # graph_nodes
    /\ Len(ReaderView.edges) < Len(graph_edges)

(***************************************************************************)
(* vectordb.py: the calls of the record store, one connection.  A store     *)
(* value db is [records, record_embeddings, committed].  The window of     *)
(* 5000 rows of insert_batch (line 174) is scaled down to CommitWindow.     *)
(***************************************************************************)
MaxStoreCalls == 2

DB == [records |-> records, record_embeddings |-> record_embeddings,
       committed |-> db_committed]

\* self.conn.commit()
StoreCommit(db) ==
    [db EXCEPT !.committed =
        [records |-> db.records, record_embeddings |-> db.record_embeddings]]

\* lines 145-175: the loop from item i on; the execute of the items at the
\* positions in failing raises and "except Exception" goes on
RECURSIVE insert_batch_loop(_, _, _, _, _)
insert_batch_loop(db, batch, failing, i, count) ==
    IF i > Len(batch) THEN [db |-> StoreCommit(db), count |-> count]
    ELSE LET written == IF i \in failing THEN db
                        ELSE [db EXCEPT !.records = insert(@, batch[i])]
             db1 == IF i % CommitWindow = 0 THEN StoreCommit(written) ELSE written
         IN  insert_batch_loop(db1, batch, failing, i + 1,
                               IF i \in failing THEN count ELSE count + 1)

\* insert_batch without its try/except: the first failing item ends the loop
insert_batch_aborting(db, batch, failing) ==
    LET stop == IF failing \cap (1..Len(batch)) = {} THEN Len(batch) + 1
                ELSE CHOOSE i \in failing : \A j \in failing : i <= j
    IN  insert_batch_loop(db, SubSeq(batch, 1, stop - 1), {}, 1, 0)

insert_batch(db, batch, failing) == insert_batch_loop(db, batch, failing, 1, 0)

\* UPDATE records SET ... without its WHERE
update_validation_everywhere(db, record_id, status, target, error) ==
    StoreCommit([db EXCEPT !.records =
        { [r EXCEPT !.validation_status = status, !.validation_target = target,
                    !.validation_error = error] : r \in @ }])

\* UPDATE records SET validation_status = ?, validation_target = ?,
\* validation_error = ? WHERE id = ?, then commit
update_validation(db, record_id, status, target, error) ==
    StoreCommit([db EXCEPT !.records =
        { IF r.id = record_id
          THEN [r EXCEPT !.validation_status = status, !.validation_target = target,
                         !.validation_error = error]
          ELSE r : r \in @ }])

\* a record whose lists and texts hold quotes, commas and backslashes
RecQ ==
    [DotNetRecord("r4", "aspnet", "12.0", ".NET 8.0", "Minimal APIs",
                  "Route handlers", "app.MapGet(\"/\", () => \"Hello\");",
                  "Startup.cs", <<"Swashbuckle, AspNetCore", "A\"B\\C">>)
     EXCEPT !.validation_status = "fails", !.validation_target = "net8.0",
            !.validation_error = <<"CS1002: ; expected">>,
            !.tags = <<"web", "a, b", "">>]

StoreRecords == {RecA, RecB, RecC, RecQ}

\* the lists handed to insert_batch: an id twice, and three ids
StoreBatches == {<<RecA, RecB>>, <<RecC, RecQ, RecB>>}

\* the arguments of update_validation: validator outcomes for a stored id
\* and for an id no record has
ValidationInputs ==
    { <<id, outcome[1], "net10.0", outcome[2]>> :
        id \in {"r1", "r9"},
        outcome \in {<<"compiles", <<>>>>, <<"fails", <<"CS0103: name does not exist">>>>} }

\* the arguments of store_embedding: vectors of the configured length, and
\* an empty vector and a vector that is too long
EmbeddingInputs ==
    ({"r1", "r4", "r9"} \X QueryVectors) \cup ({"r1", "r4"} \X {<<>>, <<1, 2>>})

\* a call and its effect on the tables
StoreCall(db, op, args, result) ==
    /\ db_calls < MaxStoreCalls
    /\ db_calls' = db_calls + 1
    /\ records' = db.records
    /\ record_embeddings' = db.record_embeddings
    /\ db_committed' = db.committed
    /\ db_last' = [op |-> op, args |-> args, result |-> result]
    /\ UNCHANGED <<gvars, scan_order, evars, rvars, fvars, bvars, cvars>>

\* a call that reads
StoreRead(op, args, result) ==
    /\ StoreCall(DB, op, args, result)
    /\ UNCHANGED db_inserted

Insert ==
    \E record \in StoreRecords :
        /\ StoreCall(StoreCommit([DB EXCEPT !.records = insert(@, record)]),
                     "insert", <<record>>, <<>>)
        /\ db_inserted' = [db_inserted EXCEPT ![record.id] = <<record>>]

\* the last item of the batch with the given id that was written
LastWritten(batch, failing, id) ==
    LET at == {i \in 1..Len(batch) \ failing : batch[i].id = id}
    IN  IF at = {} THEN <<>>
        ELSE <<batch[CHOOSE i \in at : \A j \in at : j <= i]>>

InsertBatch ==
    \E batch \in StoreBatches :
        \E failing \in SUBSET (1..Len(batch)) :
            \E out \in {insert_batch(DB, batch, failing)} :
                /\ StoreCall(out.db, "insert_batch", <<batch, failing>>, <<out.count>>)
                /\ db_inserted' =
                      [id \in DOMAIN db_inserted |->
                          IF LastWritten(batch, failing, id) # <<>>
                          THEN LastWritten(batch, failing, id)
                          ELSE db_inserted[id]]

GetById ==
    \E id \in DOMAIN db_inserted :
        StoreRead("get_by_id", <<id>>, get_by_id(records, id))

UpdateValidation ==
    \E in \in ValidationInputs :
        /\ StoreCall(update_validation(DB, in[1], in[2], in[3], in[4]),
                     "update_validation", in, <<>>)
        /\ db_inserted' = [db_inserted EXCEPT ![in[1]] = <<>>]

StoreEmbedding ==
    \E in \in EmbeddingInputs :
        /\ IF store_embedding_raises(in[2])
           THEN StoreCall([DB EXCEPT !.record_embeddings =
                               store_embedding(@, in[1], in[2])],
                          "store_embedding", in, <<"OperationalError">>)
           ELSE StoreCall(StoreCommit([DB EXCEPT !.record_embeddings =
                                           store_embedding(@, in[1], in[2])]),
                          "store_embedding", in, <<>>)
        /\ UNCHANGED db_inserted

SearchSimilar ==
    \E query_embedding \in QueryVectors, k \in 0..MaxTopK :
        \E found \in search_similar(records, record_embeddings, query_embedding, k) :
            StoreRead("search_similar", <<query_embedding, k>>, found)

InitStore ==
    /\ graph_nodes = EmptyGraph.nodes
    /\ graph_edges = EmptyGraph.edges
    /\ committed = EmptyGraph.committed
    /\ batch_mode = EmptyGraph.batch_mode
    /\ calls = 0
    /\ scan_order = "rowid"
    /\ ExpandIdle
    /\ \E db \in RecordStores :
        /\ records = db.records
        /\ record_embeddings = db.record_embeddings
    /\ RetrieveIdle
    /\ BuildIdle
    /\ StoreIdle
    /\ CallsIdle

NextStore ==
    \/ Insert
    \/ InsertBatch
    \/ GetById
    \/ UpdateValidation
    \/ StoreEmbedding
    \/ SearchSimilar

SpecStore == InitStore /\ [][NextStore]_vars

(***************************************************************************)
(* Properties of the record store.                                          *)
(***************************************************************************)
Called(op) == db_last.op = op

\* C16: the table never holds two rows with one id, and get_by_id of an id
\* returns, field for field, the record that the last insert or insert_batch
\* wrote for that id.
C16_InsertThenGet ==
    /\ \A r1, r2 \in records : r1.id = r2.id => r1 = r2
    /\ \A id \in StoreIds :
          db_inserted[id] # <<>> => get_by_id(records, id) = db_inserted[id]
    /\ Called("get_by_id") =>
          \A id \in StoreIds :
              (db_last.args = <<id>> /\ db_inserted[id] # <<>>) =>
                  db_last.result = db_inserted[id]

\* C16 witness: get_by_id has returned the record with quotes and commas in
\* its lists, which was inserted over a table that held other rows.
C16_Witness ==
    /\ Called("get_by_id")
    /\ db_last.args = <<RecQ.id>>
    /\ db_last.result = <<RecQ>>
    /\ db_inserted[RecQ.id] = <<RecQ>>
    /\ Cardinality(records) >= 3

\* the arguments and the count of an insert_batch call
Batch == db_last.args[1]

Failing == db_last.args[2]

\* C17: when insert_batch returns, its count is the number of items whose
\* write did not fail, every such item is the row of its id unless a later
\* such item has the id, also when it comes after a failing item, and every
\* row is committed.
C17_BatchSkipsFailingItems ==
    Called("insert_batch") =>
        /\ db_last.result = <<Cardinality(1..Len(Batch) \ Failing)>>
        /\ \A i \in 1..Len(Batch) \ Failing :
              (\A j \in (i + 1)..Len(Batch) : j \in Failing \/ Batch[j].id # Batch[i].id)
                  => get_by_id(records, Batch[i].id) = <<Batch[i]>>
        /\ db_committed.records = records

\* C17 witness: the first of three items failed and the two after it were
\* written.
C17_Witness ==
    /\ Called("insert_batch")
    /\ Len(Batch) = 3
    /\ Failing = {1}
    /\ db_last.result = <<2>>
    /\ get_by_id(records, Batch[2].id) = <<Batch[2]>>
    /\ get_by_id(records, Batch[3].id) = <<Batch[3]>>

\* the record with the validation fields of an update_validation call
Validated(record, status, target, error) ==
    [record EXCEPT !.validation_status = status, !.validation_target = target,
                   !.validation_error = error]

\* C18: an update_validation(id, status, target, error) call leaves every
\* embedding as it was, leaves what get_by_id returns for every other id as
\* it was, and changes the record of id, if there is one, in its three
\* validation fields only.
C18_UpdateValidationFrame ==
    [][(db_calls' = db_calls + 1 /\ db_last'.op = "update_validation") =>
          /\ record_embeddings' = record_embeddings
          /\ Cardinality(records') = Cardinality(records)
          /\ \A id \in StoreIds :
                get_by_id(records', id) =
                    IF id = db_last'.args[1] /\ get_by_id(records, id) # <<>>
                    THEN <<Validated(get_by_id(records, id)[1], db_last'.args[2],
                                     db_last'.args[3], db_last'.args[4])>>
                    ELSE get_by_id(records, id)]_vars

\* C18 witness: the validation of a stored record has been set to fails with
\* an error text, in a store with other records and with embeddings.
C18_Witness ==
    /\ Called("update_validation")
    /\ get_by_id(records, db_last.args[1]) # <<>>
    /\ get_by_id(records, db_last.args[1])[1].validation_status = "fails"
    /\ get_by_id(records, db_last.args[1])[1].validation_error # <<>>
    /\ Cardinality(records) >= 3
    /\ record_embeddings # {}

\* the arguments and the result of a search_similar call
Query == db_last.args[1]

TopK == db_last.args[2]

Found == db_last.result

\* C19: search_similar returns at most top_k pairs, in ascending distance
\* order; every pair holds a stored record and the distance of a stored
\* embedding of that record's id to the query; the result is empty when no
\* stored record has an embedding.
C19_SearchSimilarResult ==
    Called("search_similar") =>
        /\ Len(Found) <= TopK
        /\ \A i, j \in 1..Len(Found) : i < j => Found[i].distance <= Found[j].distance
        /\ \A i \in 1..Len(Found) :
              /\ Found[i].record \in StoredRecords
              /\ \E e \in record_embeddings :
                    /\ e.id = Found[i].record.id
                    /\ Found[i].distance = Distance(e.embedding, Query)
        /\ (\A r \in records : \A e \in record_embeddings : e.id # r.id) => Found = <<>>

\* C19 witness: two pairs at different distances came back from a store
\* that also holds a record without an embedding.
C19_Witness ==
    /\ Called("search_similar")
    /\ Len(Found) = 2
    /\ Found[1].distance < Found[2].distance
    /\ \E r \in records : \A e \in record_embeddings : e.id # r.id

\* a search_similar(v, top_k) call with top_k >= 1 where v is the stored
\* embedding of a stored record
SelfQuery ==
    /\ Called("search_similar")
    /\ TopK >= 1
    /\ \E R \in StoredRecords : HasEmbedding(R, Query)

\* C20 (as claimed): search_similar with the stored embedding of record R
\* returns R as its first result, at distance 0.
C20_SelfIsFirst ==
    SelfQuery =>
        \A R \in StoredRecords :
            HasEmbedding(R, Query) =>
                /\ Found # <<>>
                /\ Found[1].record = R
                /\ Found[1].distance = 0

\* the ids that have a stored embedding equal to v
IdsAt(v) == {e.id : e \in {e \in record_embeddings : e.embedding = v}}

\* C20 (amended): the first result of search_similar with the stored
\* embedding of record R is at distance 0 and is a record with that
\* embedding: R when no other id has it.  R is among the results when at
\* most top_k ids have that embedding.  There is a first result unless the
\* embedding is also stored for an id that no record has.
C20_SelfAtDistanceZero ==
    SelfQuery =>
        /\ Found # <<>> =>
              /\ Found[1].distance = 0
              /\ HasEmbedding(Found[1].record, Query)
        /\ ~Orphan(Query) => Found # <<>>
        /\ \A R \in StoredRecords :
              (HasEmbedding(R, Query) /\ Cardinality(IdsAt(Query)) <= TopK) =>
                  \E i \in 1..Len(Found) : Found[i].record = R /\ Found[i].distance = 0

\* C20 witness: the record came back first at distance 0 from a store where
\* another record has an embedding elsewhere.
C20_Witness ==
    /\ SelfQuery
    /\ Found # <<>>
    /\ Found[1].distance = 0
    /\ IdsAt(Query) = {Found[1].record.id}
    /\ \E e \in record_embeddings :
          e.embedding # Query /\ get_by_id(records, e.id) # <<>>

\* the step of a store_embedding call
StoreEmbeddingStep == db_calls' = db_calls + 1 /\ db_last'.op = "store_embedding"

MaxGraphCalls == 2

\* the graphs the calls start from: the empty one, and one with two records
\* and edges of weights 0.7 and 1.0 between their feature nodes
CallGraphs ==
    { EmptyGraph,
      add_edges(add_records(EmptyGraph, <<RecA, RecC>>),
                <<GraphEdge("feature:r2", "feature:r1", "RELATED_TO", 7),
                  GraphEdge("feature:r1", "feature:r1", "RELATED_TO", 10),
                  GraphEdge("feature:r1", "feature:r2", "RELATED_TO", 10)>>) }

\* the lists handed to add_nodes_batch: the nodes of seed_graph, and a list
\* with an id twice and an id that add_record_to_graph writes
NodeBatches ==
    { create_version_nodes \o create_runtime_nodes \o create_framework_nodes,
      <<GraphNode("note:r1", "feature", "unprefixed feature", EmptyProps),
        GraphNode("feature:r1", "concept", "r1 as concept", EmptyProps),
        GraphNode("note:r1", "concept", "second note", EmptyProps)>> }

NeighborIds == {"feature:r1", "feature:r2"}

\* a call that writes
GraphCall(g, op, args, result) ==
    /\ calls < MaxGraphCalls
    /\ calls' = calls + 1
    /\ SetGraph(g)
    /\ g_last' = [op |-> op, args |-> args, result |-> result]
    /\ UNCHANGED <<scan_order, evars, dbvars, rvars, fvars, bvars, svars, wvars, pvars, added, kvars>>

\* a call that reads
GraphRead(op, args, result) ==
    /\ g_last' = [op |-> op, args |-> args, result |-> result]
    /\ UNCHANGED <<gvars, scan_order, evars, dbvars, rvars, fvars, bvars, svars,
                   wvars, pvars, added, kvars>>

CallAddNode ==
    \E node \in NodeInputs : GraphCall(add_node(G, node), "add_node", <<node>>, <<>>)

CallAddNodesBatch ==
    \E batch \in NodeBatches :
        GraphCall(add_nodes_batch(G, batch), "add_nodes_batch", <<batch>>,
                  <<add_nodes_batch_count(G, batch)>>)

CallAddEdge ==
    \E edge \in EdgeInputs : GraphCall(add_edge(G, edge), "add_edge", <<edge>>, <<>>)

CallAddRecord ==
    \E record \in Records :
        GraphCall(add_record_to_graph(record, G), "add_record_to_graph", <<record>>,
                  <<edges_created(record)>>)

CallGetNeighbors ==
    \E node_id \in NeighborIds, max_neighbors \in 0..MaxNeighbors :
        GraphRead("get_neighbors", <<node_id, max_neighbors>>,
                  get_neighbors(graph_nodes, graph_edges, node_id, max_neighbors,
                                scan_order))

InitGraph ==
    /\ \E g \in CallGraphs :
        /\ graph_nodes = g.nodes
        /\ graph_edges = g.edges
        /\ committed = g.committed
        /\ batch_mode = g.batch_mode
    /\ calls = 0
    /\ scan_order = "rowid"
    /\ ExpandIdle
    /\ records = {}
    /\ record_embeddings = {}
    /\ RetrieveIdle
    /\ BuildIdle
    /\ StoreIdle
    /\ CallsIdle

NextGraph ==
    \/ CallAddNode
    \/ CallAddNodesBatch
    \/ CallAddEdge
    \/ CallAddRecord
    \/ CallGetNeighbors

SpecGraph == InitGraph /\ [][NextGraph]_vars

(***************************************************************************)
(* Properties of the graph store calls.                                     *)
(***************************************************************************)
GraphCalled(op) == g_last.op = op

\* the step of a call of the graph store that writes
GraphStep(op) == calls' = calls + 1 /\ g_last'.op = op

\* C22 (as claimed): add_nodes_batch returns the number of rows it added to
\* graph_nodes.
C22_CountIsNewlyCreated ==
    [][GraphStep("add_nodes_batch") =>
          g_last'.result = <<Cardinality(graph_nodes') - Cardinality(graph_nodes)>>]_vars

\* C23: an add_nodes_batch call leaves every node that was stored as it was,
\* with its type, name and properties, and an add_node call makes its
\* argument the node of its id, whatever was stored for that id, and leaves
\* the nodes of the other ids as they were.
C23_BatchKeepsAddNodeReplaces ==
    [][/\ GraphStep("add_nodes_batch") => \A n \in graph_nodes : n \in graph_nodes'
       /\ GraphStep("add_node") =>
             graph_nodes' = {n \in graph_nodes : n.id # g_last'.args[1].id}
                                \cup {g_last'.args[1]}]_vars

\* C23 witness: the batch held feature:r1 as a concept, and the stored node
\* of that id is still the feature that add_record_to_graph wrote.
C23_Witness ==
    /\ GraphCalled("add_nodes_batch")
    /\ \E i \in 1..Len(g_last.args[1]) :
          /\ g_last.args[1][i].id = "feature:r1"
          /\ g_last.args[1][i].node_type = "concept"
    /\ get_node(graph_nodes, "feature:r1") # <<>>
    /\ get_node(graph_nodes, "feature:r1")[1].node_type = "feature"

\* the (node, edge) pairs of a node: one for each edge from it to a stored
\* node and one for each edge to it from a stored node
NeighborPairs(node_id) ==
    { [node |-> get_node(graph_nodes, graph_edges[i].target_id)[1],
       edge |-> graph_edges[i]] :
        i \in { k \in 1..Len(graph_edges) :
                  /\ graph_edges[k].source_id = node_id
                  /\ get_node(graph_nodes, graph_edges[k].target_id) # <<>> } }
    \cup
    { [node |-> get_node(graph_nodes, graph_edges[i].source_id)[1],
       edge |-> graph_edges[i]] :
        i \in { k \in 1..Len(graph_edges) :
                  /\ graph_edges[k].target_id = node_id
                  /\ get_node(graph_nodes, graph_edges[k].source_id) # <<>> } }

\* the pairs that a get_neighbors call left out
Omitted == NeighborPairs(g_last.args[1]) \ Range(g_last.result)

\* C24: get_neighbors(id, limit) returns at most limit pairs, each of them a
\* pair of an outgoing or an incoming edge of id, in descending order of
\* weight, and no pair it leaves out is heavier than a pair it returns.
C24_NeighborsHeaviestFirst ==
    GraphCalled("get_neighbors") =>
        /\ Len(g_last.result) <= g_last.args[2]
        /\ \A i \in 1..Len(g_last.result) :
              g_last.result[i] \in NeighborPairs(g_last.args[1])
        /\ \A i, j \in 1..Len(g_last.result) :
              i < j => g_last.result[i].edge.weight >= g_last.result[j].edge.weight
        /\ \A c \in Omitted : \A i \in 1..Len(g_last.result) :
              c.edge.weight <= g_last.result[i].edge.weight

\* C24 witness: of three pairs the two of weight 1.0 came back, one of an
\* outgoing and one of an incoming edge, and the pair of weight 0.7 was left
\* out.
C24_Witness ==
    /\ GraphCalled("get_neighbors")
    /\ g_last.args[2] = 2
    /\ Len(g_last.result) = 2
    /\ \E i, j \in 1..2 :
          /\ g_last.result[i].edge.source_id = g_last.args[1]
          /\ g_last.result[j].edge.target_id = g_last.args[1]
          /\ g_last.result[j].edge.source_id # g_last.args[1]
    /\ \E c \in Omitted : c.edge.weight < g_last.result[2].edge.weight

\* C25 (as claimed): add_record_to_graph returns the number of rows it added
\* to graph_edges.
C25_CountIsEdgesPersisted ==
    [][GraphStep("add_record_to_graph") =>
          g_last'.result = <<Len(graph_edges') - Len(graph_edges)>>]_vars

\* the rows of the edges from a node with one of the given relations
OutRows(edges, source_id, relations) ==
    {i \in 1..Len(edges) :
        edges[i].source_id = source_id /\ edges[i].relation \in relations}

\* the rows of a triple
TripleRows(edges, source_id, target_id, relation) ==
    {i \in 1..Len(edges) :
        /\ edges[i].source_id = source_id
        /\ edges[i].target_id = target_id
        /\ edges[i].relation = relation}

\* the feature node of the record and its edges, as C26 states them
FeatureSubgraph(nodes, edges, record) ==
    LET feature_id == feature_node_id(record)
        packages == {record.nuget_packages[i] : i \in 1..Len(record.nuget_packages)}
    IN  /\ get_node(nodes, feature_id) # <<>>
        /\ Cardinality(OutRows(edges, feature_id,
                               {"INTRODUCED_IN", "REQUIRES_RUNTIME", "PART_OF"})) = 3
        /\ Cardinality(TripleRows(edges, feature_id,
               version_node_id(record.csharp_version), "INTRODUCED_IN")) = 1
        /\ Cardinality(TripleRows(edges, feature_id,
               runtime_node_id(record.dotnet_version), "REQUIRES_RUNTIME")) = 1
        /\ Cardinality(TripleRows(edges, feature_id,
               category_node_id(record.category), "PART_OF")) = 1
        /\ \A p \in packages :
              /\ Cardinality(TripleRows(edges, feature_id, package_node_id(p),
                                        "USES_PACKAGE")) = 1
              /\ get_node(nodes, package_node_id(p)) # <<>>
              /\ get_node(nodes, package_node_id(p))[1].node_type = "nuget_package"
        /\ \A i \in OutRows(edges, feature_id, {"USES_PACKAGE"}) :
              \E p \in packages : edges[i].target_id = package_node_id(p)

\* C26: after add_record_to_graph(record) on a graph without a node of the
\* record's feature id, the feature node is stored; its INTRODUCED_IN,
\* REQUIRES_RUNTIME and PART_OF edges are three, one to the node id of the
\* record's language version, runtime version and category each; and for
\* every declared package there is exactly one USES_PACKAGE edge to the
\* package's node, which is stored, and there is no other USES_PACKAGE edge.
C26_RecordSubgraph ==
    [][(/\ GraphStep("add_record_to_graph")
        /\ get_node(graph_nodes, feature_node_id(g_last'.args[1])) = <<>>)
          => FeatureSubgraph(graph_nodes', graph_edges', g_last'.args[1])]_vars

\* C26 witness: the record that declares EFCore and efcore was added to the
\* empty graph and its feature node has four edges.
C26_Witness ==
    /\ GraphCalled("add_record_to_graph")
    /\ calls = 1
    /\ g_last.args[1] = RecC
    /\ Len(RecC.nuget_packages) = 2
    /\ Len(graph_edges) = 4
    /\ FeatureSubgraph(graph_nodes, graph_edges, RecC)

C27_RetrieveIsReadOnly ==
    [][/\ records' = records
       /\ record_embeddings' = record_embeddings
       /\ graph_nodes' = graph_nodes
       /\ graph_edges' = graph_edges
       /\ committed' = committed
       /\ db_committed' = db_committed]_vars

\* C27 witness: retrieve has returned a context with a vector result and a
\* graph result, after search_similar, expand_neighbors and get_by_id, and
\* the stores hold records, embeddings, nodes and edges.
C27_Witness ==
    /\ rt_pc = "returned"
    /\ context # <<>>
    /\ \E i, j \in 1..Len(context[1].results) :
          /\ context[1].results[i].source = "vector"
          /\ context[1].results[j].source = "graph"
    /\ {"search_similar", "expand_neighbors", "get_by_id"} \subseteq Range(store_calls)
    /\ records # {}
    /\ record_embeddings # {}
    /\ graph_nodes # {}
    /\ graph_edges # <<>>

(***************************************************************************)
(* graphdb.py: add_edge on two connections to one graph file, neither in    *)
(* batch mode.  committed.edges is the table in the file; the row a         *)
(* connection has inserted and not yet committed is w_edge of it.  SQLite   *)
(* lets one connection at a time write: an INSERT waits while the other     *)
(* connection has a row to commit.                                          *)
(***************************************************************************)
\* the edges the two writers add: one triple with two weights, and another
WriterEdges ==
    { GraphEdge("feature:r1", "feature:r2", "RELATED_TO", 10),
      GraphEdge("feature:r1", "feature:r2", "RELATED_TO", 5),
      GraphEdge("feature:r2", "feature:r1", "RELATED_TO", 5) }

\* lines 191-194: the SELECT of add_edge, which reads the committed rows
EdgeSelect(h) ==
    /\ w_pc[h] = "idle"
    /\ calls < MaxCalls
    /\ calls' = calls + 1
    /\ \E edge \in WriterEdges :
        /\ w_edge' = [w_edge EXCEPT ![h] = <<edge>>]
        /\ w_existing' = [w_existing EXCEPT ![h] = EdgeExists(committed.edges, edge)]
    /\ w_pc' = [w_pc EXCEPT ![h] = "selected"]
    /\ UNCHANGED <<graph_nodes, graph_edges, committed, batch_mode, scan_order, evars,
                   dbvars, rvars, fvars, bvars, svars, g_last, pvars, added, kvars>>

\* lines 195-196: "if existing: return"
EdgeReturn(h) ==
    /\ w_pc[h] = "selected"
    /\ w_existing[h]
    /\ w_pc' = [w_pc EXCEPT ![h] = "idle"]
    /\ w_edge' = [w_edge EXCEPT ![h] = <<>>]
    /\ UNCHANGED <<gvars, scan_order, evars, dbvars, rvars, fvars, bvars, svars,
                   g_last, w_existing, pvars, added, kvars>>

\* lines 198-201: the INSERT, once no other connection holds the write lock
EdgeInsert(h) ==
    /\ w_pc[h] = "selected"
    /\ ~w_existing[h]
    /\ \A other \in Handles : w_pc[other] # "inserted"
    /\ w_pc' = [w_pc EXCEPT ![h] = "inserted"]
    /\ UNCHANGED <<gvars, scan_order, evars, dbvars, rvars, fvars, bvars, svars,
                   g_last, w_edge, w_existing, pvars, added, kvars>>

\* lines 202-203: the commit, which puts the row into the file
EdgeCommit(h) ==
    /\ w_pc[h] = "inserted"
    /\ committed' = [committed EXCEPT !.edges = Append(@, EdgeRow(@, w_edge[h][1]))]
    /\ graph_edges' = committed'.edges
    /\ w_pc' = [w_pc EXCEPT ![h] = "idle"]
    /\ w_edge' = [w_edge EXCEPT ![h] = <<>>]
    /\ UNCHANGED <<graph_nodes, batch_mode, calls, scan_order, evars, dbvars, rvars,
                   fvars, bvars, svars, g_last, w_existing, pvars, added, kvars>>

NextWriters ==
    \E h \in Handles :
        \/ EdgeSelect(h)
        \/ EdgeReturn(h)
        \/ EdgeInsert(h)
        \/ EdgeCommit(h)

SpecWriters == Init /\ [][NextWriters]_vars

\* C28 (as claimed): the file never holds two rows of graph_edges with the
\* same source, target and relation, however the add_edge calls of the two
\* connections interleave.
C28_OneRowPerTriple ==
    \A i, j \in 1..Len(committed.edges) :
        (/\ committed.edges[i].source_id = committed.edges[j].source_id
         /\ committed.edges[i].target_id = committed.edges[j].target_id
         /\ committed.edges[i].relation = committed.edges[j].relation) => i = j

(***************************************************************************)
(* cli.py: the embed command, one step per record of its loop.  For the     *)
(* records at the positions in p_failing the call of embed_text or of      *)
(* store_embedding raises.                                                  *)
(***************************************************************************)
\* db.get_all(): the stored records in the order of "ORDER BY created_at
\* DESC", which is any order where the rows were created in the same second
get_all(recs) ==
    { s \in [1..Cardinality(recs) -> {row_to_record(row) : row \in recs}] :
        \A i, j \in 1..Cardinality(recs) : i # j => s[i] # s[j] }

\* lines 275-280
EmbedStart ==
    /\ p_pc = "idle"
    /\ \E fetched \in get_all(records) :
        /\ p_records' = fetched
        /\ \E failing \in SUBSET (1..Len(fetched)) : p_failing' = failing
        /\ p_pc' = IF fetched = <<>> THEN "done" ELSE "running"
    /\ p_i' = 0
    /\ UNCHANGED <<gvars, scan_order, evars, dbvars, rvars, fvars, bvars, svars,
                   g_last, wvars, added, kvars>>

\* lines 283-297: one iteration; an exception of embed_text or of
\* store_embedding leaves the loop and the command
EmbedRecord ==
    /\ p_pc = "running"
    /\ p_i < Len(p_records)
    /\ IF p_i + 1 \in p_failing
       THEN /\ p_pc' = "raised"
            /\ UNCHANGED <<dbvars, db_committed, p_i>>
       ELSE /\ \E vec \in QueryVectors :
                record_embeddings' =
                    store_embedding(record_embeddings, p_records[p_i + 1].id, vec)
            /\ records' = records
            /\ db_committed' =
                   [records |-> records', record_embeddings |-> record_embeddings']
            /\ p_i' = p_i + 1
            /\ p_pc' = p_pc
    /\ UNCHANGED <<gvars, scan_order, evars, rvars, fvars, bvars, db_calls, db_last,
                   db_inserted, g_last, wvars, p_records, p_failing, added, kvars>>

\* lines 299-300: the loop is through
EmbedReturn ==
    /\ p_pc = "running"
    /\ p_i = Len(p_records)
    /\ p_pc' = "done"
    /\ UNCHANGED <<gvars, scan_order, evars, dbvars, rvars, fvars, bvars, svars,
                   g_last, wvars, p_records, p_failing, p_i, added, kvars>>

NextEmbed ==
    \/ EmbedStart
    \/ EmbedRecord
    \/ EmbedReturn

SpecEmbed == InitStore /\ [][NextEmbed]_vars

\* C30 (as claimed): the embed pass does not end by an exception, and when
\* it has ended its loop has gone through every record, so that every
\* record after a failing one was embedded and stored.
C30_PassNeverAborts ==
    /\ p_pc # "raised"
    /\ p_pc = "done" => p_i = Len(p_records)

(***************************************************************************)
(* graph_builder.py: add_record_to_graph calls on the seeded graph, with    *)
(* the records in every order.                                              *)
(***************************************************************************)
MaxAdded == 3

\* two records with the id r1, a record that declares a package in two
\* spellings, and records without packages and with two packages
OrderRecords == {RecA, RecB, RecC, RecL, RecQ}

OrderAddRecord ==
    /\ Len(added) < MaxAdded
    /\ \E record \in OrderRecords :
        /\ SetGraph(add_record_to_graph(record, G))
        /\ added' = Append(added, record)
    /\ calls' = calls + 1
    /\ UNCHANGED <<scan_order, evars, dbvars, rvars, fvars, bvars, svars, g_last,
                   wvars, pvars, kvars>>

InitOrder ==
    /\ \E g \in {seed_graph(EmptyGraph)} :
        /\ graph_nodes = g.nodes
        /\ graph_edges = g.edges
        /\ committed = g.committed
        /\ batch_mode = g.batch_mode
    /\ calls = 0
    /\ scan_order = "rowid"
    /\ ExpandIdle
    /\ records = {}
    /\ record_embeddings = {}
    /\ RetrieveIdle
    /\ BuildIdle
    /\ StoreIdle
    /\ CallsIdle

NextOrder == OrderAddRecord

SpecOrder == InitOrder /\ [][NextOrder]_vars

\* the orders of a list
Orders(s) ==
    { [i \in 1..Len(s) |-> s[f[i]]] :
        f \in { f \in [1..Len(s) -> 1..Len(s)] :
                  \A i, j \in 1..Len(s) : i # j => f[i] # f[j] } }

NodeTypes(nodes) == {<<n.id, n.node_type>> : n \in nodes}

\* C31: whatever the order of the add_record_to_graph calls made on the
\* seeded graph, the graph has the node ids, with the node types, and the
\* (source, target, relation) triples that every other order of the same
\* calls gives.
C31_OrderIndependent ==
    \A order \in Orders(added) :
        \E g \in {add_records(seed_graph(EmptyGraph), order)} :
            /\ NodeTypes(g.nodes) = NodeTypes(graph_nodes)
            /\ TripleSet(g.edges) = TripleSet(graph_edges)

\* C31 witness: three records were added, two of them with the same id, and
\* another order of the three gives other node rows (another name of the
\* feature node) under the same ids and types.
C31_Witness ==
    /\ Len(added) = 3
    /\ \E i, j \in 1..3 : added[i].id = added[j].id /\ added[i] # added[j]
    /\ \E i \in 1..3 : Len(added[i].nuget_packages) = 2
    /\ \E order \in Orders(added) :
          add_records(seed_graph(EmptyGraph), order).nodes # graph_nodes

\* the ids of the nodes that get_neighbors returns for the nodes of a frontier
FrontierNeighbors(frontier) ==
    UNION { { pair.node.id :
                pair \in Range(get_neighbors(graph_nodes, graph_edges, nid,
                                             max_neighbors_per_hop, scan_order)) } :
            nid \in frontier }

\* the (id, hop) pairs of an expansion that takes each hop as a whole: the
\* nodes of hop h + 1 are the neighbours of the frontier of hop h that were
\* not seen before
RECURSIVE HopLevels(_, _, _)
HopLevels(frontier, seen, h) ==
    IF h >= max_hops \/ frontier = {} THEN {}
    ELSE LET new == FrontierNeighbors(frontier) \ seen
         IN  {<<id, h + 1>> : id \in new} \cup HopLevels(new, seen \cup new, h + 1)

\* the stored seeds
ResolvedSeeds == {id \in Range(node_ids) : get_node(graph_nodes, id) # <<>>}

\* the (id, hop) pairs of the nodes expand_neighbors has collected
FoundAtHop == {<<all_nodes[i].id, node_hop[i]>> : i \in 1..Len(all_nodes)}

\* C32: whatever the order in which expand_neighbors goes through the nodes
\* of each frontier, the ids of the nodes it returns and the hop at which it
\* found each of them are those of the expansion that takes each hop as a
\* whole, which store, seeds and caps determine.
C32_FrontierOrderIrrelevant ==
    ex_pc = "done" =>
        FoundAtHop =
            {<<id, 0>> : id \in ResolvedSeeds}
                \cup HopLevels(Range(node_ids), ResolvedSeeds, 0)

\* C32 witness: a hop had a frontier of two nodes or more, which can be gone
\* through in more than one order, and a node was found in the second hop.
C32_Witness ==
    /\ ex_pc = "done"
    /\ \E h \in 1..Len(frontier_sizes) : frontier_sizes[h] >= 2
    /\ \E i \in 1..Len(node_hop) : node_hop[i] = 2
    /\ max_neighbors_per_hop >= 1

\* lines 314-323 and 337-343: the counters of stats()
stats(recs, embs) ==
    [total_records |-> Cardinality(recs),
     validated |-> Cardinality({r \in recs : r.validation_status = "compiles"}),
     failed |-> Cardinality({r \in recs : r.validation_status = "fails"}),
     embedded |-> Cardinality(embs)]

\* every embedding has the id of a record, and stats() counts no more
\* embeddings than records
Linked(recs, embs) ==
    /\ \A e \in embs : \E r \in recs : r.id = e.id
    /\ stats(recs, embs).embedded <= stats(recs, embs).total_records

\* C33 (as claimed): no call of the record store takes it from a state where
\* every embedding has the id of a stored record, and stats() counts no more
\* embeddings than records, to a state where that is not so.
C33_EmbeddingsHaveRecords ==
    [][Linked(records, record_embeddings) => Linked(records', record_embeddings')]_vars

\* the first characters of a block: its number in brackets
BlockNumber(i) == "### [" \o ToString(i) \o "] "

\* C34: the blocks of a formatted context are the blocks of the first k
\* results in rank order and block i starts with the number i; if a result
\* is left without a block, the block of result k + 1 did not fit after the
\* first k, and no block of a later result follows, whatever its length; the
\* empty result list formats to the empty string.
C34_BlocksArePrefix ==
    Formatted =>
        IF Results = <<>>
        THEN parts = <<>> /\ output = <<"">>
        ELSE /\ Emitted \in 0..Len(Results)
             /\ \A k \in 1..Emitted :
                   /\ parts[k + 1] = Section(k, Results[k])
                   /\ StartsWith(parts[k + 1], BlockNumber(k))
             /\ Emitted < Len(Results) =>
                   BlockChars(Results, Emitted)
                       + Len(Section(Emitted + 1, Results[Emitted + 1])) > max_chars
             /\ \A k \in (Emitted + 2)..Len(parts) : \A j \in 1..Len(Results) :
                   parts[k] # Section(j, Results[j])

\* C34 witness: the block of a result did not fit, the block of a later
\* result is shorter and would have fitted, and it was not emitted.
C34_Witness ==
    /\ Formatted
    /\ Emitted + 1 < Len(Results)
    /\ \E j \in (Emitted + 2)..Len(Results) :
          BlockChars(Results, Emitted) + Len(Section(j, Results[j])) <= max_chars

\* C34 witness of the empty list: the context without results was formatted.
C34_EmptyFormatted == Formatted /\ Results = <<>> /\ output = <<"">>

\* the step of an add_record_to_graph call with the record of the call before
AddedAgain ==
    /\ added # <<>>
    /\ added' = Append(added, added[Len(added)])

\* C35: an add_record_to_graph call with the record of the call before it
\* leaves the rows of graph_nodes and of graph_edges, and what is committed
\* of them, as the first call left them.
C35_AddRecordIdempotent ==
    [][AddedAgain =>
          /\ graph_nodes' = graph_nodes
          /\ graph_edges' = graph_edges
          /\ committed' = committed]_vars

\* C35 witness: the record that declares two packages was added twice in a
\* row, and its feature node has its one row and its four edges.
C35_Witness ==
    /\ Len(added) = 2
    /\ added[1] = RecC
    /\ added[2] = RecC
    /\ Len(RecC.nuget_packages) = 2
    /\ committed.nodes = graph_nodes
    /\ committed.edges = graph_edges
    /\ Cardinality({n \in graph_nodes : n.id = feature_node_id(RecC)}) = 1
    /\ Cardinality({i \in 1..Len(graph_edges) :
                       graph_edges[i].source_id = feature_node_id(RecC)}) = 4

\* the ids at the other end of the stored edges from or to one of the ids
Touching(ids) ==
    {graph_edges[i].target_id :
        i \in {k \in 1..Len(graph_edges) : graph_edges[k].source_id \in ids}}
    \cup
    {graph_edges[i].source_id :
        i \in {k \in 1..Len(graph_edges) : graph_edges[k].target_id \in ids}}

\* the ids that k stored edges or fewer, taken in either direction, connect
\* to one of the ids
RECURSIVE Within(_, _)
Within(ids, k) ==
    IF k = 0 THEN ids ELSE Within(ids \cup Touching(ids), k - 1)

\* the seed ids of the call that name no stored node
GhostSeeds == {id \in Range(node_ids) : get_node(graph_nodes, id) = <<>>}

\* C36: of a finished expand_neighbors call, every returned node is a stored
\* node whose id max_hops stored edges or fewer, in either direction, connect
\* to a seed id; every returned edge is a stored edge of which the source or
\* the target is a returned node; and no returned node has the id of a seed
\* that names no stored node.
C36_ReturnedIsStoredAndNear ==
    ex_pc = "done" =>
        /\ \A i \in 1..Len(all_nodes) :
              /\ all_nodes[i] \in graph_nodes
              /\ all_nodes[i].id \in Within(Range(node_ids), max_hops)
        /\ \A j \in 1..Len(all_edges) :
              /\ \E k \in 1..Len(graph_edges) : graph_edges[k] = all_edges[j]
              /\ \/ all_edges[j].source_id \in ResultIds
                 \/ all_edges[j].target_id \in ResultIds
        /\ GhostSeeds \cap ResultIds = {}

\* C36 witness: a call with a seed that names no stored node returned the
\* edge from a stored node to that seed and that stored node, which is not a
\* seed, and a node found in the second hop; the seed is not returned.
C36_Witness ==
    /\ ex_pc = "done"
    /\ max_hops = 2
    /\ "ghost:1" \in GhostSeeds
    /\ \E j \in 1..Len(all_edges) :
          /\ all_edges[j].target_id = "ghost:1"
          /\ all_edges[j].source_id \in ResultIds \ Range(node_ids)
    /\ \E i \in 1..Len(node_hop) : node_hop[i] = 2

\* the feature nodes of the traversal whose record id names no stored record
UnresolvedFeatures ==
    {n \in Range(context[1].graph_nodes) :
        /\ n.node_type = "feature"
        /\ StartsWith(n.id, "feature:")
        /\ get_by_id(records, RecordIdOf(n.id)) = <<>>}

\* the edges of the traversal from or to a node, in the order of the traversal
EdgesAt(fid) ==
    LET At(e) == e.source_id = fid \/ e.target_id = fid
    IN  SelectSeq(context[1].graph_edges, At)

\* C37: every result of a returned retrieve holds a record of the record
\* store; no result is the record of a feature node of the traversal whose
\* record id names no stored record; and the related edges of every result
\* are the edges of the traversal whose source or target is the feature node
\* of the result's record, no more and no fewer.
C37_ResultsResolveAndAnnotate ==
    Returned =>
        /\ \A i \in 1..Len(Results) : Results[i].record \in StoredRecords
        /\ \A n \in UnresolvedFeatures :
              \A i \in 1..Len(Results) : Fid(Results[i].record) # n.id
        /\ \A i \in 1..Len(Results) :
              Results[i].related_edges = EdgesAt(Fid(Results[i].record))

\* C37 witness: the traversal reached a feature node without a stored record,
\* which gave no result, and a feature node with one, which gave a graph
\* result annotated with an edge to it and an edge from it.
C37_Witness ==
    /\ Returned
    /\ UnresolvedFeatures # {}
    /\ \E i \in 1..Len(Results) :
          /\ Results[i].source = "graph"
          /\ \E j, k \in 1..Len(Results[i].related_edges) :
                /\ Results[i].related_edges[j].target_id = Fid(Results[i].record)
                /\ Results[i].related_edges[k].source_id = Fid(Results[i].record)
    /\ \E i \in 1..Len(Results) :
          Results[i].source = "vector" /\ Results[i].related_edges # <<>>

\* the feature node has, among the edges, its INTRODUCED_IN, REQUIRES_RUNTIME
\* and PART_OF edge
HasStructuralEdges(edges, n) ==
    /\ TripleRows(edges, n.id, version_node_id(n.properties.csharp_version),
                  "INTRODUCED_IN") # {}
    /\ TripleRows(edges, n.id, runtime_node_id(n.properties.dotnet_version),
                  "REQUIRES_RUNTIME") # {}
    /\ TripleRows(edges, n.id, category_node_id(n.properties.category),
                  "PART_OF") # {}

\* the feature nodes of the table that lack one of their structural edges
PartialFeatures(nodes, edges) ==
    {n \in nodes : n.node_type = "feature" /\ ~HasStructuralEdges(edges, n)}

\* C38: at every moment of a build_graph_from_records call, of a process
\* death in it and of the build run again, every feature node of the
\* committed tables, which are what a reader on another connection sees, has
\* its INTRODUCED_IN, REQUIRES_RUNTIME and PART_OF edge committed.
C38_ReaderSeesWholeRecords ==
    PartialFeatures(ReaderView.nodes, ReaderView.edges) = {}

\* C38 witness: the build is in the middle of a record, whose feature node is
\* written without its edges, and the reader sees the feature nodes of the
\* window committed before it and not that node.
C38_Witness ==
    /\ b_pc = "running"
    /\ batch_mode
    /\ PartialFeatures(graph_nodes, graph_edges) # {}
    /\ \E n \in ReaderView.nodes : n.node_type = "feature"
    /\ PartialFeatures(graph_nodes, graph_edges) \cap ReaderView.nodes = {}

(***************************************************************************)
(* scraper/parser.py: chunk_text, one step per iteration of its loop.  A    *)
(* text is a sequence of characters.                                        *)
(***************************************************************************)
MaxTextLen == 4

MaxChunkChars == 4

\* a start index repeats, and the loop with it, before this many chunks
MaxChunks == MaxTextLen + MaxChunkChars + 1

Alphabet == {"a", "\n"}

Texts == UNION {[1..n -> Alphabet] : n \in 0..MaxTextLen}

\* an index of a slice: a negative one counts from the end
SliceIndex(i, n) == IF i < 0 THEN Max(n + i, 0) ELSE Min(i, n)

\* s[a:b]
Slice(s, a, b) == SubSeq(s, SliceIndex(a, Len(s)) + 1, SliceIndex(b, Len(s)))

\* s.rfind(sub, a, b): the highest index at which sub lies within s[a:b]
rfind(s, sub, a, b) ==
    LET lo == SliceIndex(a, Len(s))
        hi == SliceIndex(b, Len(s))
        hits == {i \in lo..(hi - Len(sub)) : SubSeq(s, i + 1, i + Len(sub)) = sub}
    IN  IF hits = {} THEN -1 ELSE CHOOSE i \in hits : \A j \in hits : j <= i

IsSpace(c) == c \in {" ", "\n", "\t"}

\* s.strip()
strip(s) ==
    LET kept == {i \in 1..Len(s) : ~IsSpace(s[i])}
    IN  IF kept = {} THEN <<>>
        ELSE SubSeq(s, CHOOSE i \in kept : \A j \in kept : i <= j,
                       CHOOSE i \in kept : \A j \in kept : j <= i)

\* lines 42-54: the end of the chunk that starts at start; limit is max_chars
chunk_end(text, limit, start) ==
    LET end == start + limit
        para == rfind(text, <<"\n", "\n">>, start + (limit \div 2), end)
        line == rfind(text, <<"\n">>, start + (limit \div 2), end)
    IN  IF end < Len(text)
        THEN IF para # -1 THEN para + 2
             ELSE IF line # -1 THEN line + 1 ELSE end
        ELSE end

NonEmpty(c) == c # <<>>

\* lines 35-39: the call, up to the head of the loop
ChunkText ==
    /\ k_pc = "idle"
    /\ \E text \in Texts, limit \in 1..MaxChunkChars :
        \E overlap \in 0..(limit - 1) :
            /\ k_text' = text
            /\ k_max_chars' = limit
            /\ k_overlap' = overlap
            /\ k_start' = 0
            /\ IF Len(text) <= limit
               THEN k_pc' = "returned" /\ k_chunks' = <<text>>
               ELSE k_pc' = "while" /\ k_chunks' = <<>>
    /\ UNCHANGED <<gvars, scan_order, evars, dbvars, rvars, fvars, bvars, svars,
                   g_last, wvars, pvars, added>>

\* lines 41-57: one iteration of "while start < len(text)"
ChunkLoop ==
    /\ k_pc = "while"
    /\ k_start < Len(k_text)
    /\ Len(k_chunks) < MaxChunks
    /\ \E end \in {chunk_end(k_text, k_max_chars, k_start)} :
        /\ k_chunks' = Append(k_chunks, strip(Slice(k_text, k_start, end)))
        /\ k_start' = end - k_overlap
    /\ UNCHANGED <<gvars, scan_order, evars, dbvars, rvars, fvars, bvars, svars,
                   g_last, wvars, pvars, added, k_pc, k_text, k_max_chars, k_overlap>>

\* line 59: the loop is over
ChunkReturn ==
    /\ k_pc = "while"
    /\ ~(k_start < Len(k_text))
    /\ k_pc' = "returned"
    /\ k_chunks' = SelectSeq(k_chunks, NonEmpty)
    /\ UNCHANGED <<gvars, scan_order, evars, dbvars, rvars, fvars, bvars, svars,
                   g_last, wvars, pvars, added, k_text, k_max_chars, k_overlap, k_start>>

NextChunk ==
    \/ ChunkText
    \/ ChunkLoop
    \/ ChunkReturn

SpecChunk == Init /\ [][NextChunk]_vars

\* a call that has started goes on running
FairSpecChunk == SpecChunk /\ WF_vars(ChunkLoop) /\ WF_vars(ChunkReturn)

\* C39 (as claimed): in a chunk_text call with max_chars > overlap >= 0 every
\* iteration of the loop leaves start greater than it found it, and every
\* call reaches its return.
C39_ChunkTextTerminates ==
    /\ [][(k_pc = "while" /\ k_pc' = "while" /\ k_chunks' # k_chunks)
             => k_start' > k_start]_vars
    /\ (k_pc = "while" ~> k_pc = "returned")

====
